---- MODULE Spec2Model ----
(***************************************************************************)
(* Merge/spawn simulation engine of the shapes game (richer variant,       *)
(* src/unnamed/part_000): GameState, StorageService, RNG slots, the spawn  *)
(* scheduler with offline catch-up, drag handling and the merge resolver.  *)
(*                                                                         *)
(* Conventions                                                             *)
(*  - a nullable JS value is a sequence of length 0 (null) or 1;           *)
(*  - rngSlots is indexed 1..6 here, 0..5 in the source;                   *)
(*  - coordinates are integers (px); the spawn/drag grid is chosen so that *)
(*    every centroid the model reaches is an exact quotient;               *)
(*  - JS handlers run to completion: while pc # "idle" only the running    *)
(*    handler's next step is enabled.                                      *)
(***************************************************************************)
EXTENDS Integers, Sequences, FiniteSets, Bags, TLC

\* ------------------------------------------------------------------ bounds
\* top-level spawnShape calls explored per page session
MaxSpawns == 2
\* the clock stops MaxTicks spawn intervals after the page load
MaxTicks == 3
\* how many live tokens a colliding Math.random draw may repeat (SpecCollide)
MaxCollide == 1

\* --------------------------------------------------------- program constants
COLORS == <<"red", "blue", "green">>
\* ?l=4 in the query string (parseInt(urlParams.get('l')))
MAX_SHAPES == 4
SPAWN_INTERVAL == 1500
OFFLINE_SPAWN_LIMIT == MAX_SHAPES
\* Shape.width: the literal 80 of isTouching, 40 = half of it
WIDTH == 80
HALF == 40

Null == <<>>
Some(v) == <<v>>
IsNull(o) == o = <<>>
Val(o) == o[1]

Min(a, b) == IF a < b THEN a ELSE b

SlotIndices == 1..6

\* values the environment feeds the handlers. The three points: the first two
\* touch, the last two touch, the first and the last do not
\* Math.random() * (innerWidth - 100), Math.random() * (innerHeight - 100)
SpawnPositions == { <<0, 0>>, <<60, 0>> }
\* e.clientX - 40, e.clientY - 40 of a press on a dispenser preview
DrawPositions == { <<60, 0>> }
\* e.clientX - dragOffset.x, e.clientY - dragOffset.y of a move
MovePositions == { <<60, 0>>, <<60, 72>> }
\* e.pointerId: of a press, of a move or release
DownPointers == {1}
Pointers == {1, 2}
\* Math.floor(Math.random() * slots.length) + 1
Rolls == {1, 2, 4}
\* the dispenser preview pressed, the slot rectangle a release falls in (0: none)
Presses == {1, 4}
Hits == {0, 1, 4}

\* ---------------------------------------------------------------- GameState
Spawner == <<"spawner">>
\* faulty variant of getDefaultSlots: the first template has one side
getDefaultSlotsPoint ==
    << Some([color |-> COLORS[1], sides |-> 1, attributes |-> Spawner]),
       Some([color |-> COLORS[2], sides |-> 2, attributes |-> Spawner]),
       Some([color |-> COLORS[3], sides |-> 2, attributes |-> Spawner]),
       Null, Null, Null >>

getDefaultSlots ==
    << Some([color |-> COLORS[1], sides |-> 2, attributes |-> Spawner]),
       Some([color |-> COLORS[2], sides |-> 2, attributes |-> Spawner]),
       Some([color |-> COLORS[3], sides |-> 2, attributes |-> Spawner]),
       Null, Null, Null >>

\* stats as a bag of <<color, sides>>: stats[color][sides] is the number of
\* copies, a missing entry is 0 copies, {} is the empty bag
StatOf(st, color, sides) == CopiesIn(<<color, sides>>, st)

\* faulty variants of recordSpawn: one overwrites the table with the new
\* entry, one counts the new entry twice
recordSpawnOverwrite(st, shapeData) ==
    SetToBag({ <<shapeData.color, shapeData.sides>> })
recordSpawnTwice(st, shapeData) ==
    st (+) SetToBag({ <<shapeData.color, shapeData.sides>> })
       (+) SetToBag({ <<shapeData.color, shapeData.sides>> })

recordSpawn(st, shapeData) ==
    st (+) SetToBag({ <<shapeData.color, shapeData.sides>> })

toJSON(G) ==
    [ version |-> G.version, shapes |-> G.shapes, stats |-> G.stats,
      lastActiveTime |-> G.lastActiveTime, rngSlots |-> G.rngSlots ]

\* ----------------------------------------------------------- StorageService
\* JSON text of an object: its members in emission order, as <<key, value>>
\* pairs. JSON.stringify leaves out a member whose value is undefined; the
\* object given here is the plain record toJSON returns, all members defined.
JSONKeys == << "version", "shapes", "stats", "lastActiveTime", "rngSlots" >>

\* faulty variant of JSONstringify: the rngSlots member is left out
JSONstringifyNoSlots(obj) ==
    LET present == SelectSeq(JSONKeys, LAMBDA k : k \in DOMAIN obj /\ k # "rngSlots")
    IN  [ i \in 1..Len(present) |-> << present[i], obj[present[i]] >> ]

JSONstringify(obj) ==
    LET present == SelectSeq(JSONKeys, LAMBDA k : k \in DOMAIN obj)
    IN  [ i \in 1..Len(present) |-> << present[i], obj[present[i]] >> ]

\* JSON.parse: the object whose properties are the members of the text (the
\* last member of a key wins)
JSONparse(text) ==
    [ k \in { text[i][1] : i \in 1..Len(text) } |->
        LET last == CHOOSE i \in 1..Len(text) :
                       /\ text[i][1] = k
                       /\ \A j \in 1..Len(text) : text[j][1] = k => j <= i
        IN  text[last][2] ]

HasMember(data, k) == k \in DOMAIN data
Member(data, k) == data[k]

\* StorageService.save: localStorage.setItem('game_state', JSON.stringify(state))
save(G, obj) ==
    [ G EXCEPT !.storage = Some(JSONstringify(obj)), !.saves = @ + 1 ]

\* a text JSON.parse accepts: every member has its value (a text cut short
\* ends in a member without one)
parses(text) == \A i \in 1..Len(text) : Len(text[i]) = 2

\* the members of a text up to the first one JSON.parse rejects
RECURSIVE wellFormedPrefix(_)
wellFormedPrefix(text) ==
    IF text = <<>> \/ Len(Head(text)) # 2 THEN <<>>
    ELSE <<Head(text)>> \o wellFormedPrefix(Tail(text))

\* faulty variant of load: a text cut short is read up to the cut
loadLenient(store) ==
    IF IsNull(store) THEN Null
    ELSE Some(JSONparse(wellFormedPrefix(Val(store))))

\* StorageService.load: null when the key is absent or JSON.parse throws,
\* else the parsed text
load(store) ==
    IF IsNull(store) THEN Null
    ELSE IF ~parses(Val(store)) THEN Null
    ELSE Some(JSONparse(Val(store)))

\* data.k ?? dflt for a member holding a nullable value (null and undefined
\* both take the default)
OrDefaultNullable(data, k, dflt) ==
    IF HasMember(data, k) /\ ~IsNull(Member(data, k)) THEN Member(data, k) ELSE dflt

\* data.k ?? dflt for a member that is never null when present
OrDefault(data, k, dflt) ==
    IF HasMember(data, k) THEN Member(data, k) ELSE dflt

\* new GameState()
newGameState ==
    [ version |-> 1, shapes |-> <<>>, stats |-> EmptyBag,
      lastActiveTime |-> Null, rngSlots |-> getDefaultSlots ]

\* faulty variant of fromJSON: an object that lacks a field is dropped whole
fromJSONAllOrNothing(data) ==
    IF \A i \in 1..Len(JSONKeys) : HasMember(data, JSONKeys[i])
    THEN [ version |-> Member(data, "version"),
           shapes |-> Member(data, "shapes"),
           stats |-> Member(data, "stats"),
           lastActiveTime |-> Member(data, "lastActiveTime"),
           rngSlots |-> Member(data, "rngSlots") ]
    ELSE newGameState

\* GameState.fromJSON: the five fields of the state it returns
fromJSON(data) ==
    [ version |-> OrDefault(data, "version", 1),
      shapes |-> OrDefault(data, "shapes", <<>>),
      stats |-> OrDefault(data, "stats", EmptyBag),
      lastActiveTime |-> OrDefaultNullable(data, "lastActiveTime", Null),
      rngSlots |-> OrDefault(data, "rngSlots", getDefaultSlots) ]

\* --------------------------------------------------------------------- Game
VARIABLES
    version, shapes, stats, lastActiveTime, rngSlots,   \* this.state
    runtimeShapes,      \* Map id -> Shape, in insertion order
    draggedShape,       \* null or the Shape object being dragged
    dragPointerId,      \* null or the pointer of the drag session
    spawnInterval,      \* this.spawnInterval: null or the last timer handle
    timers,             \* handles of the interval timers that are armed
    visible,            \* document.visibilityState = 'visible'
    storage,            \* localStorage['game_state']: null or JSON text
    now,                \* Date.now()
    pc,                 \* position of the running handler, "idle" between events
    loop,               \* processOfflineSpawns in progress: iterations left,
                        \* the caller, and what the pass has done so far
    created,            \* spawnShape calls of this page session
    last                \* the last handler: what ran and what it was given

gameVars == << version, shapes, stats, lastActiveTime, rngSlots, runtimeShapes,
               storage >>
dragVars == << draggedShape, dragPointerId >>
timerVars == << spawnInterval, timers, visible >>
vars == << version, shapes, stats, lastActiveTime, rngSlots, runtimeShapes,
           draggedShape, dragPointerId, spawnInterval, timers, visible,
           storage, now, pc, loop, created, last >>

\* the mutable data a handler works on, threaded through the operators below.
\* The last eight fields record what the handler did: the slot index it rolled
\* or was given (0: none), the merges it performed, the <<color, sides>> of
\* the records it created, the saves it made, whether it raised, the ids and
\* identities of the Shapes it merged away (the handler may still hold one),
\* and the shapesToMerge of each merge, trigger first
Cur ==
    [ version |-> version, shapes |-> shapes, stats |-> stats,
      lastActiveTime |-> lastActiveTime, rngSlots |-> rngSlots,
      runtimeShapes |-> runtimeShapes, storage |-> storage,
      draggedShape |-> draggedShape,
      idx |-> 0, fusions |-> 0, made |-> <<>>, saves |-> 0, threw |-> FALSE,
      goneIds |-> {}, goneObjs |-> {}, merged |-> <<>> ]

\* Map.prototype.set: an existing key keeps its place, a new key goes last
MapSet(m, id, shape) ==
    IF \E i \in 1..Len(m) : m[i].id = id
    THEN [ i \in 1..Len(m) |-> IF m[i].id = id THEN shape ELSE m[i] ]
    ELSE Append(m, shape)

\* Map.prototype.delete
MapDelete(m, id) == SelectSeq(m, LAMBDA s : s.id # id)

MapHas(m, id) == \E i \in 1..Len(m) : m[i].id = id
MapGet(m, id) == m[CHOOSE i \in 1..Len(m) : m[i].id = id]

\* const idx = shapes.findIndex(d => d.id === id); if (idx > -1) shapes.splice(idx, 1)
SpliceById(sh, id) ==
    IF \E i \in 1..Len(sh) : sh[i].id = id
    THEN LET idx == CHOOSE i \in 1..Len(sh) :
                       sh[i].id = id /\ \A j \in 1..(i - 1) : sh[j].id # id
         IN  SubSeq(sh, 1, idx - 1) \o SubSeq(sh, idx + 1, Len(sh))
    ELSE sh

\* tokens in use: ids of the records, ids and object identities of the Shapes
IdsOf(sq) == { sq[i].id : i \in 1..Len(sq) }
UsedIds(G) ==
    IdsOf(G.shapes) \cup IdsOf(G.runtimeShapes) \cup IdsOf(G.draggedShape)
        \cup G.goneIds
UsedObjs(G) ==
    { G.runtimeShapes[i].obj : i \in 1..Len(G.runtimeShapes) }
        \cup { G.draggedShape[i].obj : i \in 1..Len(G.draggedShape) }
        \cup G.goneObjs
Smallest(S) == CHOOSE n \in S : \A m \in S : n <= m
FreshIn(used) == Smallest((1..(Cardinality(used) + 1)) \ used)

\* Math.random().toString(36).substr(2, 9): tokens are opaque, so a draw is
\* told by what it equals: choice 0 is a token no shape holds, choice k > 0
\* repeats the token of the k-th live record (no check is made against them)
randomId(G, choice) ==
    IF choice > 0 /\ choice <= Len(G.shapes)
    THEN G.shapes[choice].id
    ELSE FreshIn(UsedIds(G))

\* the identity of a newly constructed Shape object
newObj(G) == FreshIn(UsedObjs(G))

\* [...attributes].sort() on the attribute names in use
AttrRank(a) == IF a = "spawner" THEN 2 ELSE 1
sortAttrs(as) ==
    LET lo == SelectSeq(as, LAMBDA a : AttrRank(a) = 1)
        hi == SelectSeq(as, LAMBDA a : AttrRank(a) = 2)
    IN  lo \o hi

\* faulty variant of includesSpawner: no template counts as a spawner
includesNever(as) == FALSE

includesSpawner(as) == \E i \in 1..Len(as) : as[i] = "spawner"

\* faulty variant of isTouching: centers exactly 80 apart count as touching
isTouchingInclusive(s1, s2) ==
    LET dx == (s1.x + HALF) - (s2.x + HALF)
        dy == (s1.y + HALF) - (s2.y + HALF)
    IN  dx * dx + dy * dy <= WIDTH * WIDTH

\* Game.isTouching: Math.hypot(dx, dy) < 80 on the centers
isTouching(s1, s2) ==
    LET dx == (s1.x + HALF) - (s2.x + HALF)
        dy == (s1.y + HALF) - (s2.y + HALF)
    IN  dx * dx + dy * dy < WIDTH * WIDTH

RECURSIVE SumX(_), SumY(_)
SumX(sq) == IF sq = <<>> THEN 0 ELSE Head(sq).x + SumX(Tail(sq))
SumY(sq) == IF sq = <<>> THEN 0 ELSE Head(sq).y + SumY(Tail(sq))

\* shapesToMerge.forEach(s => { runtimeShapes.delete(s.id); splice from state })
RECURSIVE removeShapes(_, _)
removeShapes(G, sq) ==
    IF sq = <<>> THEN G
    ELSE removeShapes(
            [ G EXCEPT !.runtimeShapes = MapDelete(@, Head(sq).id),
                       !.shapes = SpliceById(@, Head(sq).id),
                       !.goneIds = @ \cup { Head(sq).id },
                       !.goneObjs = @ \cup { Head(sq).obj } ],
            Tail(sq))

\* faulty variant of candidatesOf: the attribute lists are compared as they
\* are, unsorted
candidatesOrdered(G, shape) ==
    SelectSeq(G.runtimeShapes, LAMBDA s :
        /\ s.obj # shape.obj
        /\ s.sides = shape.sides
        /\ s.color = shape.color
        /\ s.attributes = shape.attributes
        /\ isTouching(shape, s))

\* faulty variant of candidatesOf: the attributes are not compared
candidatesAnyAttributes(G, shape) ==
    SelectSeq(G.runtimeShapes, LAMBDA s :
        /\ s.obj # shape.obj
        /\ s.sides = shape.sides
        /\ s.color = shape.color
        /\ isTouching(shape, s))

\* variant of candidatesOf under which a product is not evaluated: no
\* candidates once the handler has merged
candidatesOnce(G, shape) ==
    IF G.fusions >= 1 THEN <<>>
    ELSE SelectSeq(G.runtimeShapes, LAMBDA s :
             /\ s.obj # shape.obj
             /\ s.sides = shape.sides
             /\ s.color = shape.color
             /\ sortAttrs(s.attributes) = sortAttrs(shape.attributes)
             /\ isTouching(shape, s))

\* the candidates of checkMerge, in the registry's iteration order
candidatesOf(G, shape) ==
    SelectSeq(G.runtimeShapes, LAMBDA s :
        /\ s.obj # shape.obj
        /\ s.sides = shape.sides
        /\ s.color = shape.color
        /\ sortAttrs(s.attributes) = sortAttrs(shape.attributes)
        /\ isTouching(shape, s))

\* faulty variant of sliceFirst: the last n elements
sliceLast(sq, n) == SubSeq(sq, Len(sq) - Min(n, Len(sq)) + 1, Len(sq))

\* candidates.slice(0, needed - 1)
sliceFirst(sq, n) == SubSeq(sq, 1, Min(n, Len(sq)))

\* the id choices left for the Shapes a cascade creates
Rest(tape) == IF tape = <<>> THEN <<>> ELSE Tail(tape)
Choice(tape) == IF tape = <<>> THEN 0 ELSE Head(tape)

RECURSIVE spawnShape(_, _, _, _, _, _, _), checkMerge(_, _, _)

\* Game.checkMerge(shape); the product goes through spawnShape
checkMerge(G, shape, tape) ==
    LET needed == shape.sides
        candidates == candidatesOf(G, shape)
    IN  IF Len(candidates) >= needed - 1
        THEN LET shapesToMerge == <<shape>> \o sliceFirst(candidates, needed - 1)
                 centerX == SumX(shapesToMerge) \div Len(shapesToMerge)
                 centerY == SumY(shapesToMerge) \div Len(shapesToMerge)
                 G1 == removeShapes(G, shapesToMerge)
                 G2 == [ G1 EXCEPT !.fusions = @ + 1,
                                   !.merged = Append(@, shapesToMerge) ]
             IN  spawnShape(G2, centerX, centerY, shape.color, shape.sides + 1,
                            shape.attributes, tape).G
        ELSE G

\* Game.spawnShape(x, y, color, sides, attributes) with x, y and color given;
\* returns the state and the Shape object created
spawnShape(G, x, y, color, sides, attributes, tape) ==
    LET id == randomId(G, Choice(tape))
        shapeData == [ id |-> id, x |-> x, y |-> y, color |-> color,
                       sides |-> sides, attributes |-> attributes ]
        shape == [ obj |-> newObj(G), id |-> id, x |-> x, y |-> y,
                   color |-> color, sides |-> sides, attributes |-> attributes ]
        G1 == [ G EXCEPT !.shapes = Append(@, shapeData),
                         !.stats = recordSpawn(@, shapeData),
                         !.lastActiveTime = Some(now),
                         !.runtimeShapes = MapSet(@, id, shape),
                         !.made = Append(@, <<color, sides>>) ]
    IN  [ G |-> checkMerge(G1, shape, Rest(tape)), shape |-> shape ]

\* faulty variant of clearSlot: the slot keeps its template
clearSlotNot(G, index) == save(G, toJSON(G))

\* RNG.clearSlot(index): empties the slot and saves
clearSlot(G, index) ==
    LET G1 == [ G EXCEPT !.rngSlots[index] = Null ]
    IN  save(G1, toJSON(G1))

\* Game.rehydrateShapes: one Shape per saved record, attributes defaulting to []
RECURSIVE rehydrate(_, _)
rehydrate(G, data) ==
    IF data = <<>> THEN G
    ELSE LET d == Head(data)
             shape == [ obj |-> newObj(G), id |-> d.id, x |-> d.x, y |-> d.y,
                        color |-> d.color, sides |-> d.sides,
                        attributes |-> IF "attributes" \in DOMAIN d
                                       THEN d.attributes ELSE <<>> ]
         IN  rehydrate([ G EXCEPT !.runtimeShapes = MapSet(@, d.id, shape) ],
                       Tail(data))

\* processOfflineSpawns, lines 445-452: is a catch-up pass due, and how long
IsFalsy(t) == IsNull(t) \/ Val(t) = 0
spawnsNeeded(G) == (now - Val(G.lastActiveTime)) \div SPAWN_INTERVAL
\* faulty variant of catchUpDue: the spawnsNeeded <= 2 return is missing
catchUpDueAlways(G) == ~IsFalsy(G.lastActiveTime)
catchUpDue(G) == ~IsFalsy(G.lastActiveTime) /\ spawnsNeeded(G) > 2
loopCount(G) == Min(spawnsNeeded(G), OFFLINE_SPAWN_LIMIT)

\* faulty variant of drawCycle: the draw never spawns
drawCycleNever(G0, index, pos, tape) == [ G0 EXCEPT !.idx = index ]

\* faulty variant of drawCycle: an empty slot yields a circle of the first
\* color instead of nothing
drawCycleFallback(G0, index, pos, tape) ==
    LET G == [ G0 EXCEPT !.idx = index ]
        spawnSlot == G.rngSlots[index]
    IN  IF IsNull(spawnSlot)
        THEN spawnShape(G, pos[1], pos[2], COLORS[1], 2, <<>>, tape).G
        ELSE LET G1 == spawnShape(G, pos[1], pos[2], Val(spawnSlot).color,
                                  Val(spawnSlot).sides, <<>>, tape).G
             IN  IF "attributes" \notin DOMAIN Val(spawnSlot)
                 THEN [ G1 EXCEPT !.threw = TRUE ]
                 ELSE IF ~includesSpawner(Val(spawnSlot).attributes)
                      THEN clearSlot(G1, index)
                      ELSE G1

\* variant of drawCycle that hands the template's attributes to spawnShape
drawCycleCopy(G0, index, pos, tape) ==
    LET G == [ G0 EXCEPT !.idx = index ]
        spawnSlot == G.rngSlots[index]
    IN  IF IsNull(spawnSlot) THEN G
        ELSE LET G1 == spawnShape(G, pos[1], pos[2], Val(spawnSlot).color,
                                  Val(spawnSlot).sides,
                                  Val(spawnSlot).attributes, tape).G
             IN  IF ~includesSpawner(Val(spawnSlot).attributes)
                 THEN clearSlot(G1, index)
                 ELSE G1

\* one draw-and-maybe-spawn cycle, lines 402-409 and 456-463: roll, spawn with
\* the slot's color and sides, consume the slot unless it is a spawner
drawCycle(G0, index, pos, tape) ==
    LET G == [ G0 EXCEPT !.idx = index ]
        spawnSlot == G.rngSlots[index]
    IN  IF IsNull(spawnSlot) THEN G
        ELSE LET G1 == spawnShape(G, pos[1], pos[2], Val(spawnSlot).color,
                                  Val(spawnSlot).sides, <<>>, tape).G
             IN  IF "attributes" \notin DOMAIN Val(spawnSlot)
                 THEN [ G1 EXCEPT !.threw = TRUE ]
                 ELSE IF ~includesSpawner(Val(spawnSlot).attributes)
                      THEN clearSlot(G1, index)
                      ELSE G1

\* faulty variant of tickBody: the MAX_SHAPES test is missing
tickBodyUncapped(G, index, pos, tape) ==
    LET G1 == [ G EXCEPT !.lastActiveTime = Some(now) ]
        G2 == drawCycle(G1, index, pos, tape)
    IN  IF G2.threw THEN G2 ELSE save(G2, toJSON(G2))

\* the timer callback after its catch-up pass, lines 393-410
tickBody(G, index, pos, tape) ==
    LET G1 == [ G EXCEPT !.lastActiveTime = Some(now) ]
    IN  IF Len(G1.shapes) >= MAX_SHAPES
        THEN save(G1, toJSON(G1))
        ELSE LET G2 == drawCycle(G1, index, pos, tape)
             IN  IF G2.threw THEN G2 ELSE save(G2, toJSON(G2))

\* faulty variant of reset: the counters are kept
resetKeepStats(G) ==
    LET G1 == [ G EXCEPT !.runtimeShapes = <<>>,
                         !.shapes = <<>>,
                         !.lastActiveTime = Null,
                         !.rngSlots = getDefaultSlots ]
    IN  save(G1, toJSON(G1))

\* Game.reset
reset(G) ==
    LET G1 == [ G EXCEPT !.runtimeShapes = <<>>,
                         !.shapes = <<>>,
                         !.stats = EmptyBag,
                         !.lastActiveTime = Null,
                         !.rngSlots = getDefaultSlots ]
    IN  save(G1, toJSON(G1))

\* faulty variant of checkDrop: a slot that holds a template counts too
checkDropAny(G, hit) == IF hit \in SlotIndices THEN hit ELSE -1

\* RNG.checkDrop(x, y): hit is the slot element whose rectangle holds the
\* point (0 when none does or the overlay is hidden); only an empty slot counts
checkDrop(G, hit) ==
    IF hit \in SlotIndices /\ IsNull(G.rngSlots[hit]) THEN hit ELSE -1

\* the sacrifice branch of onPointerUp, lines 552-568
sacrifice(G, dropSlotIndex) ==
    LET d == Val(G.draggedShape)
        G1 == [ G EXCEPT !.idx = dropSlotIndex,
                         !.rngSlots[dropSlotIndex] =
                            Some([ color |-> d.color, sides |-> d.sides,
                                   attributes |-> d.attributes ]),
                         !.runtimeShapes = MapDelete(@, d.id),
                         !.shapes = SpliceById(@, d.id) ]
    IN  save(G1, toJSON(G1))

\* Shape.setPosition on the dragged object plus the record update of
\* onPointerMove, lines 532-539
setPosition(G, pos) ==
    LET d == Val(G.draggedShape)
    IN  [ G EXCEPT
            !.draggedShape = Some([ d EXCEPT !.x = pos[1], !.y = pos[2] ]),
            !.runtimeShapes =
                [ i \in 1..Len(@) |->
                    IF @[i].obj = d.obj
                    THEN [ @[i] EXCEPT !.x = pos[1], !.y = pos[2] ] ELSE @[i] ],
            !.shapes =
                [ i \in 1..Len(@) |->
                    IF @[i].id = d.id /\ \A j \in 1..(i - 1) : @[j].id # d.id
                    THEN [ @[i] EXCEPT !.x = pos[1], !.y = pos[2] ] ELSE @[i] ] ]

\* ------------------------------------------------------------------ actions
\* page load, a bit more than MissedTicks intervals after the epoch
MissedTicks == 1000
StartTime == (MissedTicks + 1) * SPAWN_INTERVAL
EndTime == StartTime + MaxTicks * SPAWN_INTERVAL

\* what a handler reports: its name and what it did, for a pointer event
\* e.pointerId (0 for the other events), and the merge sets it consumed
Event(op, G) ==
    [ op |-> op, idx |-> G.idx, fusions |-> G.fusions, made |-> G.made,
      saves |-> G.saves, threw |-> G.threw, ptr |-> 0, merged |-> G.merged ]
NoEvent(op) ==
    [ op |-> op, idx |-> 0, fusions |-> 0, made |-> <<>>, saves |-> 0,
      threw |-> FALSE, ptr |-> 0, merged |-> <<>> ]
PointerEvent(e, p) == [ e EXCEPT !.ptr = p ]

SetGame(G) ==
    /\ version' = G.version
    /\ shapes' = G.shapes
    /\ stats' = G.stats
    /\ lastActiveTime' = G.lastActiveTime
    /\ rngSlots' = G.rngSlots
    /\ runtimeShapes' = G.runtimeShapes
    /\ storage' = G.storage
    /\ created' = created + Len(G.made)

\* the id choices of one handler: one for the Shape it spawns, one for the
\* products of the merges that follow
Tapes(C) == { <<c1, c2>> : c1 \in C, c2 \in C }

\* a blob an earlier session of this variant left behind MissedTicks intervals
\* before the page load: two red triangles side by side, made of four red
\* circles, and a fifth red circle dropped away from them
ResumedState ==
    [ version |-> 1,
      shapes |-> << [ id |-> 1, x |-> 0, y |-> 0, color |-> "red", sides |-> 3,
                      attributes |-> <<>> ],
                    [ id |-> 2, x |-> 60, y |-> 0, color |-> "red", sides |-> 3,
                      attributes |-> <<>> ],
                    [ id |-> 3, x |-> 60, y |-> 72, color |-> "red", sides |-> 2,
                      attributes |-> <<>> ] >>,
      stats |-> (<<"red", 2>> :> 5) @@ (<<"red", 3>> :> 2),
      lastActiveTime |-> Some(SPAWN_INTERVAL),
      rngSlots |-> getDefaultSlots ]

SavedBlobs == { Null, Some(JSONstringify(ResumedState)) }

InitWith(blobs) ==
    /\ storage \in blobs
    /\ visible \in BOOLEAN
    /\ now = StartTime
    /\ pc = "boot"
    /\ version = 1
    /\ shapes = <<>>
    /\ stats = EmptyBag
    /\ lastActiveTime = Null
    /\ rngSlots = getDefaultSlots
    /\ runtimeShapes = <<>>
    /\ draggedShape = Null
    /\ dragPointerId = Null
    /\ spawnInterval = Null
    /\ timers = {}
    /\ loop = Null
    /\ created = 0
    /\ last = NoEvent("load")

\* Date.now() moves on by whole spawn intervals before the page is loaded and
\* while it is hidden (between two events of a visible page it moves too
\* little to matter to floor(diff / SPAWN_INTERVAL))
Elapse ==
    /\ pc = "boot" \/ (pc = "idle" /\ ~visible)
    /\ \E k \in {2, 3} :
         /\ now + k * SPAWN_INTERVAL <= EndTime
         /\ now' = now + k * SPAWN_INTERVAL
    /\ last' = NoEvent("elapse")
    /\ UNCHANGED << gameVars, dragVars, timerVars, pc, loop, created >>

\* setInterval: a handle no armed timer and no stored handle uses
newHandle == FreshIn(timers \cup { spawnInterval[i] : i \in 1..Len(spawnInterval) })

\* faulty variant of clearInterval: the timer stays armed
clearIntervalNot(ts, handle) == ts

\* clearInterval(handle): a null or unknown handle is ignored
clearInterval(ts, handle) ==
    IF IsNull(handle) THEN ts ELSE ts \ { Val(handle) }

\* faulty variant of startSpawnLoop: no timer is armed
startSpawnLoopNot == UNCHANGED << timers, spawnInterval >>

\* Game.startSpawnLoop, lines 390-391: clear the stored handle, arm a new timer
startSpawnLoop ==
    /\ timers' = (clearInterval(timers, spawnInterval) \cup { newHandle })
    /\ spawnInterval' = Some(newHandle)

\* enter processOfflineSpawns from the caller cont: either it returns at once
\* (nothing due) and the caller goes on at pc = after, or the loop starts
EnterCatchUp(G, cont) ==
    /\ catchUpDue(G)
    /\ pc' = "offline"
    /\ loop' = Some([ left |-> loopCount(G), cont |-> cont,
                      owed |-> spawnsNeeded(G), cycles |-> 0, drawn |-> 0 ])

\* new Game(): load, rehydrate, startSpawnLoop, listeners, processOfflineSpawns
Construct ==
    /\ pc = "boot"
    /\ LET loaded == load(storage)
           state == IF IsNull(loaded) THEN newGameState ELSE fromJSON(Val(loaded))
           G0 == [ Cur EXCEPT !.version = state.version, !.shapes = state.shapes,
                              !.stats = state.stats,
                              !.lastActiveTime = state.lastActiveTime,
                              !.rngSlots = state.rngSlots,
                              !.runtimeShapes = <<>> ]
           G == rehydrate(G0, state.shapes)
       IN  /\ SetGame(G)
           /\ startSpawnLoop
           /\ IF catchUpDue(G) THEN EnterCatchUp(G, "ctor")
              ELSE pc' = "idle" /\ loop' = Null
           /\ last' = Event("construct", G)
    /\ UNCHANGED << dragVars, visible, now >>

\* the interval timer fires with no catch-up due: the whole callback
Tick(C) ==
    /\ pc = "idle"
    /\ timers # {}
    /\ ~catchUpDue(Cur)
    /\ \E index \in Rolls, pos \in SpawnPositions, tape \in Tapes(C) :
         LET G == tickBody(Cur, index, pos, tape)
         IN  /\ G.made # <<>> => created < MaxSpawns
             /\ SetGame(G)
             /\ last' = Event("tick", G)
    /\ UNCHANGED << dragVars, timerVars, now, pc, loop >>

\* the interval timer fires with a catch-up due: the callback enters the loop
TickCatchUp ==
    /\ pc = "idle"
    /\ timers # {}
    /\ EnterCatchUp(Cur, "tick")
    /\ last' = NoEvent("tickCatchUp")
    /\ UNCHANGED << gameVars, dragVars, timerVars, now, created >>

\* one iteration of the catch-up loop, lines 454-464
OfflineCycle(C) ==
    /\ pc = "offline"
    /\ Val(loop).left > 0
    /\ Len(shapes) < MAX_SHAPES
    /\ \E index \in Rolls, pos \in SpawnPositions, tape \in Tapes(C) :
         LET G == drawCycle(Cur, index, pos, tape)
         IN  /\ G.made # <<>> => created < MaxSpawns
             /\ SetGame(G)
             /\ last' = Event("cycle", G)
             /\ IF G.threw
                THEN pc' = "idle" /\ loop' = Null
                ELSE /\ pc' = pc
                     /\ loop' = Some([ Val(loop) EXCEPT
                                         !.left = @ - 1,
                                         !.cycles = @ + 1,
                                         !.drawn = @ + (IF G.made # <<>>
                                                        THEN 1 ELSE 0) ])
    /\ UNCHANGED << dragVars, timerVars, now >>

\* the loop is over (count exhausted or the cap reached): lines 466-467, then
\* back in the caller
OfflineEnd ==
    /\ pc = "offline"
    /\ Val(loop).left = 0 \/ Len(shapes) >= MAX_SHAPES
    /\ LET G1 == [ Cur EXCEPT !.lastActiveTime = Some(now) ]
           G == save(G1, toJSON(G1))
       IN  /\ SetGame(G)
           /\ last' = Event("catchUpEnd", G)
    /\ loop' = Null
    /\ pc' = IF Val(loop).cont = "tick" THEN "tick" ELSE "idle"
    /\ IF Val(loop).cont = "foreground"
       THEN startSpawnLoop
       ELSE UNCHANGED << spawnInterval, timers >>
    /\ UNCHANGED << dragVars, visible, now >>

\* the rest of the timer callback after its catch-up pass
TickResume(C) ==
    /\ pc = "tick"
    /\ \E index \in Rolls, pos \in SpawnPositions, tape \in Tapes(C) :
         LET G == tickBody(Cur, index, pos, tape)
         IN  /\ G.made # <<>> => created < MaxSpawns
             /\ SetGame(G)
             /\ last' = Event("tick", G)
    /\ pc' = "idle"
    /\ UNCHANGED << dragVars, timerVars, now, loop >>

\* visibilitychange to hidden, line 374
Background ==
    /\ pc = "idle"
    /\ visible
    /\ visible' = FALSE
    /\ timers' = clearInterval(timers, spawnInterval)
    /\ last' = NoEvent("background")
    /\ UNCHANGED << gameVars, dragVars, spawnInterval, now, pc, loop, created >>

\* visibilitychange to visible, lines 370-372
Foreground ==
    /\ pc = "idle"
    /\ ~visible
    /\ visible' = TRUE
    /\ IF catchUpDue(Cur)
       THEN /\ EnterCatchUp(Cur, "foreground")
            /\ UNCHANGED << spawnInterval, timers >>
       ELSE /\ startSpawnLoop
            /\ UNCHANGED << pc, loop >>
    /\ last' = NoEvent("foreground")
    /\ UNCHANGED << gameVars, dragVars, now, created >>

\* Pointer and click events reach the page only while it is visible.

\* the pointer of a press on a preview: not the one that is down in a drag
PressPointers ==
    IF IsNull(dragPointerId) THEN DownPointers
    ELSE { Smallest(Pointers \ { Val(dragPointerId) }) }

\* Game.onRngShapeDown(slotIndex, e): a press on the preview of slot index
\* with the pointer at pos + 40; returns at once on an empty slot
onRngShapeDown(C) ==
    /\ pc = "idle"
    /\ visible
    /\ created < MaxSpawns
    /\ \E index \in Presses, pos \in DrawPositions, p \in PressPointers,
          tape \in Tapes(C) :
         LET slot == rngSlots[index]
         IN  /\ ~IsNull(slot)
             /\ LET G1 == clearSlot(Cur, index)
                    attributes == IF "attributes" \in DOMAIN Val(slot)
                                  THEN Val(slot).attributes ELSE <<>>
                    r == spawnShape(G1, pos[1], pos[2], Val(slot).color,
                                    Val(slot).sides, attributes, tape)
                IN  /\ SetGame(r.G)
                    /\ draggedShape' = Some(r.shape)
                    /\ dragPointerId' = Some(p)
                    /\ last' = PointerEvent(
                                  Event("rngDown", [ r.G EXCEPT !.idx = index ]), p)
    /\ UNCHANGED << timerVars, now, pc, loop >>

\* the shape elements the user presses: the one created last
DownTargets == IF runtimeShapes = <<>> THEN {}
               ELSE { runtimeShapes[Len(runtimeShapes)].id }

\* Game.onPointerDown(e): a press on the element of shape id; returns at once
\* while a drag is active
onPointerDown ==
    /\ pc = "idle"
    /\ visible
    /\ IsNull(draggedShape)
    /\ \E id \in DownTargets, p \in DownPointers :
         /\ draggedShape' = Some(MapGet(runtimeShapes, id))
         /\ dragPointerId' = Some(p)
         /\ last' = PointerEvent(NoEvent("down"), p)
    /\ UNCHANGED << gameVars, timerVars, now, pc, loop, created >>

\* faulty variant of isDragOf: e.pointerId is not compared
isDragAnyPointer(p) == ~IsNull(draggedShape)

\* the guard of onPointerMove and onPointerUp, lines 526-527 and 543-544
isDragOf(p) == ~IsNull(draggedShape) /\ Some(p) = dragPointerId

\* Game.onPointerMove(e)
onPointerMove ==
    /\ pc = "idle"
    /\ visible
    /\ \E p \in Pointers, pos \in MovePositions :
         /\ isDragOf(p)
         /\ LET G == setPosition(Cur, pos)
            IN  /\ SetGame(G)
                /\ draggedShape' = G.draggedShape
                /\ last' = PointerEvent(Event("move", G), p)
    /\ UNCHANGED << dragPointerId, timerVars, now, pc, loop >>

\* the body of onPointerUp after its guard, lines 550-579
pointerUp(G, hit) ==
    LET dropSlotIndex == checkDrop(G, hit)
    IN  IF dropSlotIndex # -1
        THEN sacrifice(G, dropSlotIndex)
        ELSE checkMerge(G, Val(G.draggedShape), <<>>)

\* Game.onPointerUp(e) (pointerup and pointercancel), hit as in checkDrop
onPointerUp ==
    /\ pc = "idle"
    /\ visible
    /\ \E p \in Pointers, hit \in Hits :
         /\ isDragOf(p)
         /\ LET G == pointerUp(Cur, hit)
            IN  /\ SetGame(G)
                /\ last' = PointerEvent(Event("up", G), p)
    /\ draggedShape' = Null
    /\ dragPointerId' = Null
    /\ UNCHANGED << timerVars, now, pc, loop >>

\* the reset button: game.reset()
Reset ==
    /\ pc = "idle"
    /\ visible
    /\ LET G == reset(Cur)
       IN  /\ SetGame(G)
           /\ last' = Event("reset", G)
    /\ UNCHANGED << dragVars, timerVars, now, pc, loop >>

\* Math.random never repeats a token a live shape holds
NoCollision == {0}

\* ----------------------------------------------------------- specifications
\* Spec: a session of play on a visible page, from a fresh start or from the
\* resumed blob (whose age makes the constructor run a catch-up pass)
Next ==
    \/ Construct
    \/ Tick(NoCollision)
    \/ OfflineCycle(NoCollision)
    \/ OfflineEnd
    \/ onRngShapeDown(NoCollision)
    \/ onPointerDown
    \/ onPointerMove
    \/ onPointerUp
    \/ Reset

Init == InitWith(SavedBlobs) /\ visible

Spec == Init /\ [][Next]_vars

\* SpecSched: the scheduler under visibility changes and elapsing time, with
\* reset, and no drags
NextSched ==
    \/ Elapse
    \/ Construct
    \/ Tick(NoCollision)
    \/ TickCatchUp
    \/ OfflineCycle(NoCollision)
    \/ OfflineEnd
    \/ TickResume(NoCollision)
    \/ Background
    \/ Foreground
    \/ Reset

InitSched == InitWith(SavedBlobs)

SpecSched == InitSched /\ [][NextSched]_vars

\* SpecFull: everything together
NextFull == Next \/ NextSched

SpecFull == InitSched /\ [][NextFull]_vars

\* SpecDraw: SpecSched with the player's draws from the overlay
NextDraw == NextSched \/ onRngShapeDown(NoCollision)

SpecDraw == InitSched /\ [][NextDraw]_vars

\* SpecCollide: Spec with a Math.random that may repeat the token of one of
\* the first MaxCollide live records
Collisions == 0..MaxCollide

NextCollide ==
    \/ Construct
    \/ Tick(Collisions)
    \/ OfflineCycle(Collisions)
    \/ OfflineEnd
    \/ onRngShapeDown(Collisions)
    \/ onPointerDown
    \/ onPointerMove
    \/ onPointerUp
    \/ Reset

SpecCollide == Init /\ [][NextCollide]_vars

\* ------------------------------------------------------- loading a save
\* a state a session left behind: the shapes and counters of ResumedState,
\* a red triangle sacrificed into slot 4, format version v and timestamp t
PlayedState(v, t) ==
    [ version |-> v,
      shapes |-> ResumedState.shapes,
      stats |-> ResumedState.stats,
      lastActiveTime |-> t,
      rngSlots |-> [ getDefaultSlots EXCEPT
                       ![4] = Some([ color |-> "red", sides |-> 3,
                                     attributes |-> <<>> ]) ] ]

\* the saves the partial blobs are cut from: the current format with an old
\* timestamp, and a later format version saved with a null timestamp
PlayedStates == { PlayedState(1, Some(SPAWN_INTERVAL)), PlayedState(2, Null) }

KeySet == { JSONKeys[i] : i \in 1..Len(JSONKeys) }
Restrict(obj, K) == [ k \in K |-> obj[k] ]

\* blobs in which any subset of the top-level fields is missing
PartialBlobs ==
    { Some(JSONstringify(Restrict(st, K))) : st \in PlayedStates,
                                             K \in SUBSET KeySet }

\* a text cut short inside its n-th member
CutShort(text, n) == SubSeq(text, 1, n - 1) \o << << text[n][1] >> >>

\* blobs JSON.parse rejects
CorruptBlobs ==
    { Some(CutShort(JSONstringify(PlayedState(1, Some(SPAWN_INTERVAL))), n)) :
        n \in 1..Len(JSONKeys) }

LoadBlobs == { Null } \cup PartialBlobs \cup CorruptBlobs

\* SpecLoad: page load on an absent, partial or corrupt blob, then the
\* scheduler on the visible page, and reset
NextLoad ==
    \/ Construct
    \/ Tick(NoCollision)
    \/ OfflineCycle(NoCollision)
    \/ OfflineEnd
    \/ Reset

InitLoad == InitWith(LoadBlobs) /\ visible

SpecLoad == InitLoad /\ [][NextLoad]_vars

\* ------------------------------------------------- the simpler variant
\* src/script.js: the same state, store, timer and catch-up pass, with
\* templates and shapes that carry no attributes member, a catch-up cycle that
\* spawns a circle of a random color, and no draw by the player, no sacrifice

\* GameState.getDefaultSlots of script.js
getDefaultSlotsSimple ==
    << Some([color |-> COLORS[1], sides |-> 2]),
       Some([color |-> COLORS[2], sides |-> 2]),
       Some([color |-> COLORS[3], sides |-> 2]),
       Null, Null, Null >>

\* new GameState() of script.js
newGameStateSimple ==
    [ version |-> 1, shapes |-> <<>>, stats |-> EmptyBag,
      lastActiveTime |-> Null, rngSlots |-> getDefaultSlotsSimple ]

\* GameState.fromJSON of script.js
fromJSONSimple(data) ==
    [ version |-> OrDefault(data, "version", 1),
      shapes |-> OrDefault(data, "shapes", <<>>),
      stats |-> OrDefault(data, "stats", EmptyBag),
      lastActiveTime |-> OrDefaultNullable(data, "lastActiveTime", Null),
      rngSlots |-> OrDefault(data, "rngSlots", getDefaultSlotsSimple) ]

\* Game.rehydrateShapes of script.js: new Shape(x, y, color, sides, id)
RECURSIVE rehydrateSimple(_, _)
rehydrateSimple(G, data) ==
    IF data = <<>> THEN G
    ELSE LET d == Head(data)
             shape == [ obj |-> newObj(G), id |-> d.id, x |-> d.x, y |-> d.y,
                        color |-> d.color, sides |-> d.sides ]
         IN  rehydrateSimple(
                 [ G EXCEPT !.runtimeShapes = MapSet(@, d.id, shape) ],
                 Tail(data))

\* the candidates of checkMerge of script.js, in the registry's order
candidatesOfSimple(G, shape) ==
    SelectSeq(G.runtimeShapes, LAMBDA s :
        /\ s.obj # shape.obj
        /\ s.sides = shape.sides
        /\ s.color = shape.color
        /\ isTouching(shape, s))

RECURSIVE spawnShapeSimple(_, _, _, _, _, _), checkMergeSimple(_, _, _)

\* Game.checkMerge(shape) of script.js
checkMergeSimple(G, shape, tape) ==
    LET needed == shape.sides
        candidates == candidatesOfSimple(G, shape)
    IN  IF Len(candidates) >= needed - 1
        THEN LET shapesToMerge == <<shape>> \o sliceFirst(candidates, needed - 1)
                 centerX == SumX(shapesToMerge) \div Len(shapesToMerge)
                 centerY == SumY(shapesToMerge) \div Len(shapesToMerge)
                 G1 == removeShapes(G, shapesToMerge)
                 G2 == [ G1 EXCEPT !.fusions = @ + 1,
                                   !.merged = Append(@, shapesToMerge) ]
             IN  spawnShapeSimple(G2, centerX, centerY, shape.color,
                                  shape.sides + 1, tape).G
        ELSE G

\* Game.spawnShape(x, y, color, sides) of script.js with x, y and color given
spawnShapeSimple(G, x, y, color, sides, tape) ==
    LET id == randomId(G, Choice(tape))
        shapeData == [ id |-> id, x |-> x, y |-> y, color |-> color,
                       sides |-> sides ]
        shape == [ obj |-> newObj(G), id |-> id, x |-> x, y |-> y,
                   color |-> color, sides |-> sides ]
        G1 == [ G EXCEPT !.shapes = Append(@, shapeData),
                         !.stats = recordSpawn(@, shapeData),
                         !.lastActiveTime = Some(now),
                         !.runtimeShapes = MapSet(@, id, shape),
                         !.made = Append(@, <<color, sides>>) ]
    IN  [ G |-> checkMergeSimple(G1, shape, Rest(tape)), shape |-> shape ]

\* the timer callback of script.js after its catch-up pass, lines 353-363:
\* at the cap it returns before the save
tickBodySimple(G, index, pos, tape) ==
    LET G1 == [ G EXCEPT !.lastActiveTime = Some(now) ]
    IN  IF Len(G1.shapes) >= MAX_SHAPES
        THEN G1
        ELSE LET G2 == [ G1 EXCEPT !.idx = index ]
                 spawnSlot == G2.rngSlots[index]
                 G3 == IF IsNull(spawnSlot) THEN G2
                       ELSE spawnShapeSimple(G2, pos[1], pos[2],
                                             Val(spawnSlot).color,
                                             Val(spawnSlot).sides, tape).G
             IN  save(G3, toJSON(G3))

\* Game.reset of script.js
resetSimple(G) ==
    LET G1 == [ G EXCEPT !.runtimeShapes = <<>>,
                         !.shapes = <<>>,
                         !.stats = EmptyBag,
                         !.lastActiveTime = Null,
                         !.rngSlots = getDefaultSlotsSimple ]
    IN  save(G1, toJSON(G1))

\* the blob of ResumedState as script.js writes it: no attributes members
ResumedStateSimple ==
    [ version |-> 1,
      shapes |-> << [ id |-> 1, x |-> 0, y |-> 0, color |-> "red", sides |-> 3 ],
                    [ id |-> 2, x |-> 60, y |-> 0, color |-> "red", sides |-> 3 ],
                    [ id |-> 3, x |-> 60, y |-> 72, color |-> "red", sides |-> 2 ] >>,
      stats |-> (<<"red", 2>> :> 5) @@ (<<"red", 3>> :> 2),
      lastActiveTime |-> Some(SPAWN_INTERVAL),
      rngSlots |-> getDefaultSlotsSimple ]

SavedBlobsSimple == { Null, Some(JSONstringify(ResumedStateSimple)) }

\* the colors Math.random picks for the circles of a catch-up pass
CycleColors == { COLORS[1], COLORS[2] }

\* new Game() of script.js
ConstructSimple ==
    /\ pc = "boot"
    /\ LET loaded == load(storage)
           state == IF IsNull(loaded) THEN newGameStateSimple
                    ELSE fromJSONSimple(Val(loaded))
           G0 == [ Cur EXCEPT !.version = state.version, !.shapes = state.shapes,
                              !.stats = state.stats,
                              !.lastActiveTime = state.lastActiveTime,
                              !.rngSlots = state.rngSlots,
                              !.runtimeShapes = <<>> ]
           G == rehydrateSimple(G0, state.shapes)
       IN  /\ SetGame(G)
           /\ startSpawnLoop
           /\ IF catchUpDue(G) THEN EnterCatchUp(G, "ctor")
              ELSE pc' = "idle" /\ loop' = Null
           /\ last' = Event("construct", G)
    /\ UNCHANGED << dragVars, visible, now >>

\* the interval timer of script.js fires with no catch-up due
TickSimple ==
    /\ pc = "idle"
    /\ timers # {}
    /\ ~catchUpDue(Cur)
    /\ \E index \in Rolls, pos \in SpawnPositions :
         LET G == tickBodySimple(Cur, index, pos, <<>>)
         IN  /\ G.made # <<>> => created < MaxSpawns
             /\ SetGame(G)
             /\ last' = Event("tick", G)
    /\ UNCHANGED << dragVars, timerVars, now, pc, loop >>

\* one iteration of the catch-up loop of script.js, lines 407-410:
\* this.spawnShape() with a random position and color, sides = 2
OfflineCycleSimple ==
    /\ pc = "offline"
    /\ Val(loop).left > 0
    /\ Len(shapes) < MAX_SHAPES
    /\ created < MaxSpawns
    /\ \E color \in CycleColors, pos \in SpawnPositions :
         LET G == spawnShapeSimple(Cur, pos[1], pos[2], color, 2, <<>>).G
         IN  /\ SetGame(G)
             /\ last' = Event("cycle", G)
             /\ loop' = Some([ Val(loop) EXCEPT !.left = @ - 1,
                                                !.cycles = @ + 1,
                                                !.drawn = @ + 1 ])
    /\ UNCHANGED << dragVars, timerVars, now, pc >>

\* the rest of the timer callback of script.js after its catch-up pass
TickResumeSimple ==
    /\ pc = "tick"
    /\ \E index \in Rolls, pos \in SpawnPositions :
         LET G == tickBodySimple(Cur, index, pos, <<>>)
         IN  /\ G.made # <<>> => created < MaxSpawns
             /\ SetGame(G)
             /\ last' = Event("tick", G)
    /\ pc' = "idle"
    /\ UNCHANGED << dragVars, timerVars, now, loop >>

\* the reset button of script.js
ResetSimple ==
    /\ pc = "idle"
    /\ visible
    /\ LET G == resetSimple(Cur)
       IN  /\ SetGame(G)
           /\ last' = Event("reset", G)
    /\ UNCHANGED << dragVars, timerVars, now, pc, loop >>

\* SpecSimple: the scheduler of script.js under visibility changes and
\* elapsing time, with reset, and no drags
NextSimple ==
    \/ Elapse
    \/ ConstructSimple
    \/ TickSimple
    \/ TickCatchUp
    \/ OfflineCycleSimple
    \/ OfflineEnd
    \/ TickResumeSimple
    \/ Background
    \/ Foreground
    \/ ResetSimple

InitSimple == InitWith(SavedBlobsSimple)

SpecSimple == InitSimple /\ [][NextSimple]_vars

\* --------------------------------------------------- loading an older save
\* blobs the simpler variant wrote, loaded by the richer one: templates and
\* shape records without an attributes member, saved long ago or just now
LegacyBlobs ==
    { Some(JSONstringify(ResumedStateSimple)),
      Some(JSONstringify([ ResumedStateSimple EXCEPT
                             !.lastActiveTime = Some(StartTime) ])) }

\* SpecLegacy: a session of play on a visible page that starts from a blob
\* of the simpler variant
InitLegacy == InitWith(LegacyBlobs) /\ visible

SpecLegacy == InitLegacy /\ [][Next]_vars

\* ------------------------------------------------------ merging on a board
\* boards a save can hold, the shape to be dragged last (far from the rest);
\* a release at a move position is within 80 of each of the others unless
\* stated. Two attribute names occur, in either order
GoldSpawner == <<"gold", "spawner">>
SpawnerGold == <<"spawner", "gold">>
Far == <<300, 300>>

shapeAt(id, pos, color, sides, attributes) ==
    [ id |-> id, x |-> pos[1], y |-> pos[2], color |-> color, sides |-> sides,
      attributes |-> attributes ]

\* one red circle at (12, 64): exactly 80 from (60, 0), less from (60, 72)
BoardDistance ==
    << shapeAt(1, <<12, 64>>, "red", 2, <<>>),
       shapeAt(2, Far, "red", 2, <<>>) >>

\* a circle of another color, a triangle, and the one circle that matches
\* (its attributes in the other order)
BoardDecoys ==
    << shapeAt(1, <<60, 0>>, "blue", 2, SpawnerGold),
       shapeAt(2, <<60, 0>>, "red", 3, SpawnerGold),
       shapeAt(3, <<60, 8>>, "red", 2, SpawnerGold),
       shapeAt(4, Far, "red", 2, GoldSpawner) >>

\* circles with other attribute lists, and the one circle that matches
BoardAttributes ==
    << shapeAt(1, <<60, 0>>, "red", 2, Spawner),
       shapeAt(2, <<60, 0>>, "red", 2, <<>>),
       shapeAt(3, <<60, 8>>, "red", 2, SpawnerGold),
       shapeAt(4, Far, "red", 2, GoldSpawner) >>

\* a triangle that matches and one that does not, for a triangle that needs two
BoardShort ==
    << shapeAt(1, <<60, 0>>, "red", 3, SpawnerGold),
       shapeAt(2, <<60, 8>>, "red", 3, Spawner),
       shapeAt(3, Far, "red", 3, GoldSpawner) >>

\* three matching circles for a circle that needs one
BoardCircles ==
    << shapeAt(1, <<60, 0>>, "red", 2, <<>>),
       shapeAt(2, <<60, 8>>, "red", 2, <<>>),
       shapeAt(3, <<52, 0>>, "red", 2, <<>>),
       shapeAt(4, Far, "red", 2, <<>>) >>

\* three matching triangles for a triangle that needs two
BoardTriangles ==
    << shapeAt(1, <<60, 0>>, "red", 3, <<>>),
       shapeAt(2, <<60, 8>>, "red", 3, <<>>),
       shapeAt(3, <<52, 0>>, "red", 3, <<>>),
       shapeAt(4, Far, "red", 3, <<>>) >>

Boards == { BoardDistance, BoardDecoys, BoardAttributes, BoardShort,
            BoardCircles, BoardTriangles }

RECURSIVE statsOfBoard(_)
statsOfBoard(sq) ==
    IF sq = <<>> THEN EmptyBag
    ELSE recordSpawn(statsOfBoard(Tail(sq)), Head(sq))

\* the save of a board, made just before the page load
BoardState(board) ==
    [ version |-> 1, shapes |-> board, stats |-> statsOfBoard(board),
      lastActiveTime |-> Some(StartTime), rngSlots |-> getDefaultSlots ]

BoardBlobs == { Some(JSONstringify(BoardState(b))) : b \in Boards }

\* SpecMerge: page load on a board, then drags and releases of the shape
\* created last
NextMerge ==
    \/ Construct
    \/ onPointerDown
    \/ onPointerMove
    \/ onPointerUp

InitMerge == InitWith(BoardBlobs) /\ visible

SpecMerge == InitMerge /\ [][NextMerge]_vars

\* --------------------------------------------------- the list variant
\* src/unnamed/part_001: the Game keeps one array of Shape objects (no
\* registry, no records), a Shape draws its own id, and the saved blob is the
\* array of the shapes' id, x, y, color, sides

\* a Shape of part_001 as the record saveState writes
plainOf(s) ==
    [ id |-> s.id, x |-> s.x, y |-> s.y, color |-> s.color, sides |-> s.sides ]

\* Game.saveState: this.shapes.map(s => ({ id, x, y, color, sides }))
saveStateList(L) == [ i \in 1..Len(L) |-> plainOf(L[i]) ]

\* Game.loadState on a parsed array: one Shape per element, in order
loadStateList(data) ==
    [ i \in 1..Len(data) |->
        [ obj |-> i, id |-> data[i].id, x |-> data[i].x, y |-> data[i].y,
          color |-> data[i].color, sides |-> data[i].sides ] ]

\* the Game of part_001 on a loaded array; the last fields record the merges
\* made, the <<color, sides>> of the shapes created, the merge sets and the
\* tokens of the shapes merged away
ListGame(data) ==
    [ shapes |-> loadStateList(data), stats |-> EmptyBag,
      saved |-> saveStateList(loadStateList(data)),
      fusions |-> 0, made |-> <<>>, merged |-> <<>>,
      goneIds |-> {}, goneObjs |-> {} ]

\* const index = this.shapes.indexOf(s); if (index > -1) this.shapes.splice(index, 1)
RECURSIVE removeShapesList(_, _)
removeShapesList(P, sq) ==
    IF sq = <<>> THEN P
    ELSE removeShapesList(
            [ P EXCEPT !.shapes = SelectSeq(@, LAMBDA s : s.obj # Head(sq).obj),
                       !.goneIds = @ \cup { Head(sq).id },
                       !.goneObjs = @ \cup { Head(sq).obj } ],
            Tail(sq))

\* the candidates of checkMerge of part_001, in the array's order
candidatesOfList(P, shape) ==
    SelectSeq(P.shapes, LAMBDA s :
        /\ s.obj # shape.obj
        /\ s.sides = shape.sides
        /\ s.color = shape.color
        /\ isTouching(shape, s))

\* the id a new Shape of part_001 draws (choices as in randomId)
randomIdList(P, choice) ==
    IF choice > 0 /\ choice <= Len(P.shapes)
    THEN P.shapes[choice].id
    ELSE FreshIn(IdsOf(P.shapes) \cup P.goneIds)

RECURSIVE spawnShapeList(_, _, _, _, _, _), checkMergeList(_, _, _)

\* Game.checkMerge(shape) of part_001
checkMergeList(P, shape, tape) ==
    LET needed == shape.sides
        candidates == candidatesOfList(P, shape)
    IN  IF Len(candidates) >= needed - 1
        THEN LET shapesToMerge == <<shape>> \o sliceFirst(candidates, needed - 1)
                 centerX == SumX(shapesToMerge) \div Len(shapesToMerge)
                 centerY == SumY(shapesToMerge) \div Len(shapesToMerge)
                 P1 == removeShapesList(P, shapesToMerge)
                 P2 == [ P1 EXCEPT !.fusions = @ + 1,
                                   !.merged = Append(@, shapesToMerge) ]
             IN  spawnShapeList(P2, centerX, centerY, shape.color,
                                shape.sides + 1, tape).P
        ELSE P

\* Game.spawnShape(x, y, color, sides) of part_001 with x, y and color given
spawnShapeList(P, x, y, color, sides, tape) ==
    LET shape == [ obj |-> FreshIn({ P.shapes[i].obj : i \in 1..Len(P.shapes) }
                                       \cup P.goneObjs),
                   id |-> randomIdList(P, Choice(tape)),
                   x |-> x, y |-> y, color |-> color, sides |-> sides ]
        P1 == [ P EXCEPT !.shapes = Append(@, shape),
                         !.stats = recordSpawn(@, shape),
                         !.made = Append(@, <<color, sides>>) ]
        P2 == checkMergeList(P1, shape, Rest(tape))
    IN  [ P |-> [ P2 EXCEPT !.saved = saveStateList(P2.shapes) ],
          shape |-> shape ]

\* ------------------------------------------------ the scheduler, forever
\* saves with other dispenser layouts: every slot empty, and one plain
\* (non-spawner) template in slot 5 only
NoSlots == << Null, Null, Null, Null, Null, Null >>
OneSlot ==
    [ NoSlots EXCEPT ![5] = Some([ color |-> "blue", sides |-> 2,
                                   attributes |-> <<>> ]) ]
LayoutState(slots) ==
    [ version |-> 1, shapes |-> <<>>, stats |-> EmptyBag,
      lastActiveTime |-> Some(StartTime), rngSlots |-> slots ]
LiveBlobs ==
    SavedBlobs \cup { Some(JSONstringify(LayoutState(NoSlots))),
                      Some(JSONstringify(LayoutState(OneSlot))) }

\* the interval timer fires with no catch-up due and the draw yields index
TickAt(index) ==
    /\ pc = "idle"
    /\ timers # {}
    /\ ~catchUpDue(Cur)
    /\ \E pos \in SpawnPositions :
         \E G \in { tickBody(Cur, index, pos, <<>>) } :
             /\ G.made # <<>> => created < MaxSpawns
             /\ SetGame(G)
             /\ last' = Event("tick", G)
    /\ UNCHANGED << dragVars, timerVars, now, pc, loop >>

\* the rest of the timer callback after its catch-up pass, the draw yielding
\* index
TickResumeAt(index) ==
    /\ pc = "tick"
    /\ \E pos \in SpawnPositions :
         \E G \in { tickBody(Cur, index, pos, <<>>) } :
             /\ G.made # <<>> => created < MaxSpawns
             /\ SetGame(G)
             /\ last' = Event("tick", G)
    /\ pc' = "idle"
    /\ UNCHANGED << dragVars, timerVars, now, loop >>

\* SpecLive: the scheduler of SpecSched with a draw over all six indices; an
\* armed timer keeps firing, a callback that started runs to its end, and no
\* index is left out of the draws for ever
NextLive ==
    \/ Elapse
    \/ Construct
    \/ \E index \in SlotIndices : TickAt(index)
    \/ TickCatchUp
    \/ OfflineCycle(NoCollision)
    \/ OfflineEnd
    \/ \E index \in SlotIndices : TickResumeAt(index)
    \/ Background
    \/ Foreground
    \/ Reset

InitLive == InitWith(LiveBlobs)

\* the timer callback, firing now with the draw yielding index, spawns
spawnsAt(index) ==
    /\ pc = "idle"
    /\ timers # {}
    /\ ~catchUpDue(Cur)
    /\ created < MaxSpawns
    /\ \E pos \in SpawnPositions : tickBody(Cur, index, pos, <<>>).made # <<>>

\* fairness: a tick that would spawn from an index is not put off for ever
\* (the timer keeps firing and the draw leaves no index out), a timer that
\* owes a catch-up pass fires, and a callback that has started goes on
FairLive ==
    /\ \A index \in SlotIndices :
          []<>~spawnsAt(index) \/ []<><<TickAt(index)>>_vars
    /\ \/ []<>~(pc = "idle" /\ timers # {} /\ catchUpDue(Cur))
       \/ []<><<TickCatchUp>>_vars
    /\ \/ []<>(pc \notin {"offline", "tick"})
       \/ []<><<\/ OfflineCycle(NoCollision)
                \/ OfflineEnd
                \/ \E index \in SlotIndices : TickResumeAt(index)>>_vars

SpecLive == InitLive /\ [][NextLive]_vars /\ FairLive

\* ------------------------------------------------- the timer, re-armed
\* the visibilitychange listener, lines 369-372, run for a page that is
\* visible already (a second event with no hidden state in between)
ForegroundAgain ==
    /\ pc = "idle"
    /\ visible
    /\ IF catchUpDue(Cur)
       THEN /\ EnterCatchUp(Cur, "foreground")
            /\ UNCHANGED << spawnInterval, timers >>
       ELSE /\ startSpawnLoop
            /\ UNCHANGED << pc, loop >>
    /\ last' = NoEvent("foregroundAgain")
    /\ UNCHANGED << gameVars, dragVars, visible, now, created >>

\* SpecTimer: the scheduler of SpecSched with repeated foreground events
NextTimer ==
    \/ Elapse
    \/ Construct
    \/ Tick(NoCollision)
    \/ TickCatchUp
    \/ OfflineCycle(NoCollision)
    \/ OfflineEnd
    \/ TickResume(NoCollision)
    \/ Background
    \/ Foreground
    \/ ForegroundAgain
    \/ Reset

SpecTimer == InitSched /\ [][NextTimer]_vars

\* ------------------------------------------------------------------- claims
\* a scheduled draw (timer tick, catch-up cycle) and a spawn attempt (the
\* same, or the player's draw from the overlay)
ScheduledOps == {"tick", "cycle"}
SpawnOps == ScheduledOps \cup {"rngDown"}

HasSpawner(slot) ==
    \E i \in 1..Len(Val(slot).attributes) : Val(slot).attributes[i] = "spawner"
AttrSet(s) == { s.attributes[i] : i \in 1..Len(s.attributes) }

\* C1: starting from a live count of at most MAX_SHAPES, the live count is
\* still at most MAX_SHAPES after any spawn attempt (tick, catch-up cycle or
\* the player's draw from the overlay)
C1_CapAfterSpawnAttempt ==
    [][ (Len(shapes) <= MAX_SHAPES /\ last'.op \in SpawnOps)
            => Len(shapes') <= MAX_SHAPES ]_vars

\* the shape a handler's checkMerge is triggered on: the dragged one on a
\* release outside the slots, else one made from the template of slot idx
TriggerOps == SpawnOps \cup {"up"}
IsDrop == last'.op = "up" /\ last'.idx = 0
Trigger ==
    IF IsDrop THEN Val(draggedShape)
    ELSE [ color |-> Val(rngSlots[last'.idx]).color,
           sides |-> Val(rngSlots[last'.idx]).sides,
           attributes |-> IF last'.op = "rngDown"
                          THEN Val(rngSlots[last'.idx]).attributes ELSE <<>> ]
\* the records and registry entries (as records) a step removes and adds
Range(sq) == { sq[i] : i \in 1..Len(sq) }
Rec(s) == [ id |-> s.id, x |-> s.x, y |-> s.y, color |-> s.color,
            sides |-> s.sides, attributes |-> s.attributes ]
Recs(sq) == { Rec(sq[i]) : i \in 1..Len(sq) }
Removed == Range(shapes) \ Range(shapes')
Added == Range(shapes') \ Range(shapes)
Newest == shapes'[Len(shapes')]
SumOver(recs, f) ==
    LET RECURSIVE Sum(_)
        Sum(i) == IF i = 0 THEN 0
                  ELSE (IF shapes[i] \in recs THEN shapes[i][f] ELSE 0) + Sum(i - 1)
    IN  Sum(Len(shapes))

\* C2: a merge triggered on a shape S of rank R removes exactly R shapes (S
\* among them) from the registry and from state.shapes, adds exactly one
\* shape of rank R + 1 with S's color and attributes at the mean of the
\* removed positions, and changes the live count by exactly -(R - 1),
\* whichever shape is the trigger. Stated for a handler that merged once,
\* where the product found no further match.
C2_MergeEffect ==
    [][ (last'.op \in TriggerOps /\ last'.fusions = 1) =>
          LET R == Trigger.sides
              k == IF IsDrop THEN 0 ELSE 1
          IN  /\ Cardinality(Removed) = R - k
              /\ IsDrop => Rec(Trigger) \in Removed
              /\ Recs(runtimeShapes) \ Recs(runtimeShapes') = Removed
              /\ Added = { Newest }
              /\ Recs(runtimeShapes') \ Recs(runtimeShapes) = Added
              /\ Newest.sides = R + 1
              /\ Newest.color = Trigger.color
              /\ Newest.attributes = Trigger.attributes
              /\ IsDrop => /\ R * Newest.x = SumOver(Removed, "x")
                           /\ R * Newest.y = SumOver(Removed, "y")
              /\ Len(shapes') = Len(shapes) + k - (R - 1) ]_vars

\* the registry entries of the new state that match shape P and touch it
MatchesAfter(P) ==
    { i \in 1..Len(runtimeShapes') :
        LET s == runtimeShapes'[i]
        IN  /\ s.id # P.id
            /\ s.color = P.color
            /\ s.sides = P.sides
            /\ AttrSet(s) = AttrSet(P)
            /\ (s.x - P.x) * (s.x - P.x) + (s.y - P.y) * (s.y - P.y) < 6400 }

\* C3 as stated: the product of a merge is not evaluated for merging in the
\* same pass, so one trigger performs at most one fusion
C3_NoChain == [][ last'.fusions <= 1 ]_vars

\* C3 amended: the product of a merge is evaluated for merging in the same
\* pass; one trigger performs a chain of fusions, each on the product of the
\* one before and one rank higher, that ends with a product lacking
\* rank - 1 matching touching shapes
C3_Cascade ==
    [][ (last'.op \in TriggerOps /\ last'.fusions >= 1) =>
          /\ Newest.sides = Trigger.sides + last'.fusions
          /\ Newest.color = Trigger.color
          /\ Cardinality(MatchesAfter(Newest)) < Newest.sides - 1 ]_vars

\* a trigger merged twice: its product merged at once
C3_Witness == last.fusions >= 2 /\ shapes # <<>>

\* C4 as stated: no stats counter ever decreases, across ticks, merges,
\* sacrifices and reset
C4_StatsNeverDecrease ==
    [][ \A key \in BagToSet(stats) :
            CopiesIn(key, stats') >= CopiesIn(key, stats) ]_vars

\* C4 amended: no stats counter decreases across any operation other than
\* reset (ticks, catch-up cycles, draws, drags, merges, sacrifices); reset
\* clears every counter
C4_StatsMonotoneButReset ==
    [][ /\ last'.op # "reset" =>
              \A key \in BagToSet(stats) :
                  CopiesIn(key, stats') >= CopiesIn(key, stats)
        /\ last'.op = "reset" => stats' = EmptyBag ]_vars

\* shapes were merged or sacrificed away and the counters kept their count
C4_Witness ==
    /\ last.op = "up"
    /\ last.fusions >= 1
    /\ BagCardinality(stats) > Len(shapes)

\* C5: the ids of the live shapes are pairwise distinct at every moment
C5_IdsDistinct ==
    \A i, j \in 1..Len(shapes) : i # j => shapes[i].id # shapes[j].id

\* C6: a tick or catch-up cycle that draws slot i empties slot i when its
\* template is not a spawner (merged or not), leaves slot i as it is when the
\* template is a spawner, and changes no other slot
C6_ScheduledDrawSlots ==
    [][ (last'.op \in ScheduledOps /\ last'.idx > 0) =>
          LET i == last'.idx
          IN  /\ (~IsNull(rngSlots[i]) /\ ~HasSpawner(rngSlots[i]))
                    => rngSlots'[i] = Null
              /\ (~IsNull(rngSlots[i]) /\ HasSpawner(rngSlots[i]))
                    => rngSlots'[i] = rngSlots[i]
              /\ \A j \in SlotIndices \ {i} : rngSlots'[j] = rngSlots[j] ]_vars

\* a tick drew the sacrificed template of slot 4, the shape merged at once
\* and the slot is empty
C6_Witness ==
    /\ last.op = "tick"
    /\ last.idx = 4
    /\ last.made # <<>>
    /\ last.fusions >= 1
    /\ rngSlots[4] = Null
    /\ rngSlots[1] # Null

\* C7 as stated: a slot holding a spawner template is never emptied by a
\* draw, scheduled or the player's
C7_SpawnerNeverEmptied ==
    [][ \A i \in SlotIndices :
          (~IsNull(rngSlots[i]) /\ HasSpawner(rngSlots[i])
             /\ last'.op \in SpawnOps)
            => ~IsNull(rngSlots'[i]) ]_vars

\* C7 amended: a slot holding a spawner template is never emptied by a
\* scheduled draw (tick or catch-up cycle); the player's draw from the
\* overlay empties the slot it draws from, spawner or not, and the shape
\* drawn carries the template's attributes
C7_SpawnerEmptiedByPlayerOnly ==
    [][ \A i \in SlotIndices :
          (~IsNull(rngSlots[i]) /\ HasSpawner(rngSlots[i])) =>
             /\ last'.op \in ScheduledOps => rngSlots'[i] = rngSlots[i]
             /\ (last'.op = "rngDown" /\ last'.idx = i) =>
                   /\ rngSlots'[i] = Null
                   /\ Val(draggedShape').attributes = Val(rngSlots[i]).attributes
             /\ (last'.op = "rngDown" /\ last'.idx # i) =>
                   rngSlots'[i] = rngSlots[i] ]_vars

\* the player emptied spawner slot 1, then a tick drew spawner slot 2 and
\* left it in place
C7_Witness ==
    /\ rngSlots[1] = Null
    /\ last.op = "tick"
    /\ last.idx = 2
    /\ last.made # <<>>
    /\ ~IsNull(rngSlots[2])

\* C8 as stated: a shape spawned by a tick or catch-up cycle has the color,
\* rank and attributes of the template drawn (seen on a shape that did not
\* merge)
C8_SpawnCopiesTemplate ==
    [][ (last'.op \in ScheduledOps /\ last'.made # <<>> /\ last'.fusions = 0) =>
          /\ Newest.color = Val(rngSlots[last'.idx]).color
          /\ Newest.sides = Val(rngSlots[last'.idx]).sides
          /\ Newest.attributes = Val(rngSlots[last'.idx]).attributes ]_vars

\* C8 amended: a shape spawned by a tick or catch-up cycle has the color and
\* rank of the template drawn and no attributes
C8_SpawnPlain ==
    [][ (last'.op \in ScheduledOps /\ last'.made # <<>>) =>
          /\ last'.made[1] = << Val(rngSlots[last'.idx]).color,
                                Val(rngSlots[last'.idx]).sides >>
          /\ last'.fusions = 0 =>
               /\ Newest.color = Val(rngSlots[last'.idx]).color
               /\ Newest.sides = Val(rngSlots[last'.idx]).sides
               /\ Newest.attributes = <<>>
               /\ \A i \in 1..Len(runtimeShapes') :
                     runtimeShapes'[i].id = Newest.id =>
                        runtimeShapes'[i].attributes = <<>> ]_vars

\* a catch-up cycle drew spawner slot 2 and the blue circle it spawned is
\* the newest shape
C8_Witness ==
    /\ last.op = "cycle"
    /\ last.idx = 2
    /\ last.fusions = 0
    /\ Len(last.made) = 1
    /\ ~IsNull(rngSlots[2])
    /\ HasSpawner(rngSlots[2])
    /\ shapes[Len(shapes)].color = "blue"

RECURSIVE BagOfSeq(_)
BagOfSeq(sq) ==
    IF sq = <<>> THEN EmptyBag ELSE SetToBag({ Head(sq) }) (+) BagOfSeq(Tail(sq))

\* C9: every creation of a shape record of color c and rank r raises
\* stats[c][r] by exactly 1 and leaves every other counter unchanged (a
\* handler that creates nothing changes none); a spawn that does not merge
\* raises the live count by exactly 1
C9_StatsCountCreations ==
    [][ last'.op \notin {"reset", "construct"} =>
          /\ stats' = stats (+) BagOfSeq(last'.made)
          /\ (last'.op \in SpawnOps /\ last'.made # <<>> /\ last'.fusions = 0)
                => Len(shapes') = Len(shapes) + 1 ]_vars

\* a tick spawned a shape that merged: two records were created, and both
\* are counted on top of the seven of the resumed session
C9_Witness ==
    /\ last.op = "tick"
    /\ Len(last.made) >= 2
    /\ BagCardinality(stats) >= 9

C11_CatchUpCapped ==
    [][ last'.op = "catchUpEnd" =>
          /\ Val(loop).cycles <= Val(loop).owed
          /\ Val(loop).cycles <= MAX_SHAPES
          /\ Val(loop).drawn <= MAX_SHAPES
          /\ Len(shapes') <= MAX_SHAPES ]_vars

\* no catch-up is owed: lastActiveTime unset, or at most 2 intervals old
NotDue ==
    \/ lastActiveTime = Null
    \/ (now - Val(lastActiveTime)) \div SPAWN_INTERVAL <= 2

\* C12: the catch-up pass changes nothing (shapes, stats, rngSlots,
\* lastActiveTime, persisted blob) when lastActiveTime is unset or at most 2
\* intervals old: the foreground handler then leaves them as they are, no
\* handler enters the loop, and right after a completed pass none is owed
C12_CatchUpNoOp ==
    [][ /\ (last'.op = "foreground" /\ NotDue) =>
              /\ UNCHANGED << shapes, stats, rngSlots, lastActiveTime, storage >>
              /\ pc' = "idle"
        /\ (pc = "idle" /\ NotDue) => pc' # "offline"
        /\ last'.op = "catchUpEnd" => NotDue' ]_vars

\* the page came back to the foreground with live shapes and a recent
\* lastActiveTime, and the handler is over
C12_Witness ==
    /\ last.op = "foreground"
    /\ pc = "idle"
    /\ shapes # <<>>
    /\ lastActiveTime # Null
    /\ NotDue


\* a release over an empty slot (a sacrifice)
IsSacrifice == last'.op = "up" /\ last'.idx > 0

\* C13: ending a drag over an empty dispenser slot i sets slot i to the
\* dragged shape's color, rank and attributes, removes that shape from the
\* registry and from state.shapes so that the live count decreases by
\* exactly 1, leaves stats unchanged and runs no merge check
C13_SacrificeEffect ==
    [][ IsSacrifice =>
          LET d == Val(draggedShape)
          IN  /\ rngSlots[last'.idx] = Null
              /\ rngSlots'[last'.idx] =
                    Some([ color |-> d.color, sides |-> d.sides,
                           attributes |-> d.attributes ])
              /\ Rec(d) \notin Range(shapes')
              /\ d \notin Range(runtimeShapes')
              /\ Len(shapes') = Len(shapes) - 1
              /\ Len(runtimeShapes') = Len(runtimeShapes) - 1
              /\ stats' = stats
              /\ last'.fusions = 0
              /\ last'.made = <<>> ]_vars

\* C14: no operation overwrites a non-empty dispenser slot with a template:
\* a sacrifice writes only to a slot that is empty at the moment of the
\* drop, and a non-empty slot changes only by becoming empty, or by reset
C14_NoSlotOverwrite ==
    [][ /\ IsSacrifice => rngSlots[last'.idx] = Null
        /\ last'.op \notin {"reset", "construct"} =>
              \A i \in SlotIndices :
                 rngSlots[i] # Null =>
                    (rngSlots'[i] = rngSlots[i] \/ rngSlots'[i] = Null) ]_vars

\* a shape was sacrificed into the empty slot 4 while slot 1 holds a template
C14_Witness ==
    /\ last.op = "up"
    /\ last.idx = 4
    /\ rngSlots[4] # Null
    /\ rngSlots[1] # Null

\* C15: while a drag session is active a second drag-start (a press on
\* another shape or a draw from a dispenser slot) is ignored: the dragged
\* shape, the session's pointer, the shape list and the slots are unchanged
C15_SecondDragIgnored ==
    [][ (draggedShape # Null /\ last'.op \in {"down", "rngDown"}) =>
          UNCHANGED << draggedShape, dragPointerId, shapes, rngSlots >> ]_vars

\* the page was reported hidden and has not come back: the handler of the
\* hidden report cleared the timer (a page that is loaded hidden has its
\* timer armed by the constructor and no report yet)
Suspended == pc = "idle" /\ ~visible /\ timers = {}

\* C16: after the page is reported hidden no scheduler tick fires and no
\* scheduled spawn occurs until the next foreground event, whatever the order
\* of visibility events since the construction of the game
C16_NoTickWhileHidden ==
    [][ /\ last'.op = "background" => Suspended'
        /\ (Suspended /\ last'.op # "foreground") =>
              /\ Suspended'
              /\ last'.op \notin {"tick", "tickCatchUp", "cycle", "catchUpEnd"}
              /\ last'.made = <<>>
              /\ UNCHANGED << shapes, stats, rngSlots >> ]_vars

\* time went by on a hidden page that holds shapes, with ticks owed and
\* none fired
C16_Witness ==
    /\ Suspended
    /\ last.op = "elapse"
    /\ shapes # <<>>
    /\ ~NotDue

\* the persisted blob holds the five fields of the state in memory
BlobIsState ==
    /\ storage # Null
    /\ LET blob == JSONparse(Val(storage))
       IN  /\ DOMAIN blob = Range(JSONKeys)
           /\ blob["version"] = version
           /\ blob["shapes"] = shapes
           /\ blob["stats"] = stats
           /\ blob["lastActiveTime"] = lastActiveTime
           /\ blob["rngSlots"] = rngSlots

\* the handlers that end a mutation batch: a tick, a catch-up pass, a draw
\* from the dispenser, a release (drop, merge or sacrifice), a reset
BatchOps == {"tick", "catchUpEnd", "rngDown", "up", "reset"}

\* C17: after each mutation batch (scheduled spawn, draw from the dispenser,
\* drag end with or without a merge, sacrifice, reset) the persisted blob
\* equals the state in memory
C17_PersistedAfterBatch ==
    [][ last'.op \in BatchOps => BlobIsState' ]_vars

\* the default dispenser layout: three rank-2 spawner templates, three
\* empty slots
DefaultLayout ==
    << << [ color |-> "red", sides |-> 2, attributes |-> <<"spawner">> ] >>,
       << [ color |-> "blue", sides |-> 2, attributes |-> <<"spawner">> ] >>,
       << [ color |-> "green", sides |-> 2, attributes |-> <<"spawner">> ] >>,
       <<>>, <<>>, <<>> >>

\* C18: reset, from any reachable state, leaves shapes empty, stats empty,
\* lastActiveTime null, rngSlots in the default layout and the registry
\* empty, and writes the store exactly once, with that cleared state
C18_ResetClears ==
    [][ last'.op = "reset" =>
          /\ shapes' = <<>>
          /\ stats' = EmptyBag
          /\ lastActiveTime' = Null
          /\ rngSlots' = DefaultLayout
          /\ runtimeShapes' = <<>>
          /\ last'.saves = 1
          /\ BlobIsState' ]_vars

\* a reset has just cleared a session in which a shape was spawned and is
\* still being dragged
C18_Witness ==
    /\ last.op = "reset"
    /\ created > 0
    /\ draggedShape # Null
    /\ shapes = <<>>

\* C19: in every reachable state the ids of the registry are the ids of
\* state.shapes, each id occurs exactly once in each, and the position
\* stored for an id is the same in both
C19_RegistryMatchesList ==
    /\ IdsOf(runtimeShapes) = IdsOf(shapes)
    /\ Cardinality(IdsOf(shapes)) = Len(shapes)
    /\ Cardinality(IdsOf(runtimeShapes)) = Len(runtimeShapes)
    /\ \A i \in 1..Len(runtimeShapes), j \in 1..Len(shapes) :
          runtimeShapes[i].id = shapes[j].id =>
             /\ runtimeShapes[i].x = shapes[j].x
             /\ runtimeShapes[i].y = shapes[j].y

\* C20: a scheduler tick that finds the live count at MAX_SHAPES or above
\* makes no dispenser draw and leaves shapes, stats and rngSlots unchanged;
\* it only sets lastActiveTime to now and persists the state (the callback
\* of part_000 saves at line 399; the callback of script.js returns at line
\* 357, before its save)
C20_TickAtCap ==
    [][ (last'.op = "tick" /\ Len(shapes) >= MAX_SHAPES) =>
          /\ last'.idx = 0
          /\ last'.made = <<>>
          /\ UNCHANGED << shapes, stats, rngSlots, runtimeShapes >>
          /\ lastActiveTime' = Some(now)
          /\ last'.saves = 1
          /\ BlobIsState' ]_vars

\* a tick found MAX_SHAPES live shapes, drew nothing and saved
C20_Witness ==
    /\ last.op = "tick"
    /\ last.idx = 0
    /\ last.saves = 1
    /\ Len(shapes) >= MAX_SHAPES
    /\ lastActiveTime = Some(now)

\* the scheduled draw of this step hit an empty slot
EmptyDraw ==
    /\ last'.op \in ScheduledOps
    /\ last'.idx \in SlotIndices
    /\ rngSlots[last'.idx] = Null

\* C21: a tick or catch-up cycle whose draw hits an empty slot creates no
\* shape, changes no slot and no stat and raises no error, and the tick still
\* sets lastActiveTime to now and persists
C21_EmptyDrawSkips ==
    [][ EmptyDraw =>
          /\ last'.made = <<>>
          /\ ~last'.threw
          /\ UNCHANGED << shapes, stats, rngSlots, runtimeShapes >>
          /\ last'.op = "tick" =>
                /\ lastActiveTime' = Some(now)
                /\ last'.saves = 1
                /\ BlobIsState' ]_vars

\* a tick drew the empty slot 4 while shapes were live: nothing was made and
\* the state was saved with the new lastActiveTime
C21_Witness ==
    /\ last.op = "tick"
    /\ last.idx = 4
    /\ rngSlots[4] = Null
    /\ last.made = <<>>
    /\ last.saves = 1
    /\ shapes # <<>>
    /\ lastActiveTime = Some(now)

\* the field k of the state in memory, and its default
FieldOf(k) ==
    CASE k = "version" -> version
      [] k = "shapes" -> shapes
      [] k = "stats" -> stats
      [] k = "lastActiveTime" -> lastActiveTime
      [] k = "rngSlots" -> rngSlots
DefaultOf(k) ==
    CASE k = "version" -> 1
      [] k = "shapes" -> <<>>
      [] k = "stats" -> EmptyBag
      [] k = "lastActiveTime" -> Null
      [] k = "rngSlots" -> DefaultLayout

\* C22: loading a blob in which any subset of the top-level fields is missing
\* yields a state where each missing field takes its default (version 1,
\* shapes empty, stats empty, lastActiveTime null, rngSlots the default
\* layout) and each present field keeps its saved value
C22_FieldDefaults ==
    (last.op = "construct" /\ storage # Null /\ parses(Val(storage))) =>
        LET blob == JSONparse(Val(storage))
        IN  \A k \in KeySet :
               FieldOf(k) = IF k \in DOMAIN blob THEN blob[k] ELSE DefaultOf(k)

\* a blob that holds shapes and a later version number, and neither stats
\* nor rngSlots, has been loaded
C22_Witness ==
    /\ last.op = "construct"
    /\ storage # Null
    /\ parses(Val(storage))
    /\ DOMAIN JSONparse(Val(storage)) = {"version", "shapes"}
    /\ version = 2
    /\ Len(shapes) = 3
    /\ stats = EmptyBag
    /\ rngSlots = DefaultLayout

\* nothing usable is stored: the key is absent or its text does not parse
NothingSaved == storage = Null \/ ~parses(Val(storage))

\* C23: when the persisted blob is absent or corrupt, load() returns null
\* without raising and the game starts from the fresh default state (no
\* shapes, empty stats, null lastActiveTime, default slots), the same for a
\* corrupt blob as for an absent one
C23_CorruptIsAbsent ==
    (last.op = "construct" /\ NothingSaved) =>
        /\ load(storage) = Null
        /\ ~last.threw
        /\ version = 1
        /\ shapes = <<>>
        /\ stats = EmptyBag
        /\ lastActiveTime = Null
        /\ rngSlots = DefaultLayout
        /\ runtimeShapes = <<>>
        /\ pc = "idle"
        /\ timers # {}

\* the page has been constructed on a text cut short after its shapes member
C23_Witness ==
    /\ last.op = "construct"
    /\ storage # Null
    /\ ~parses(Val(storage))
    /\ Len(Val(storage)) >= 3
    /\ shapes = <<>>
    /\ pc = "idle"

\* C24: no operation of the core (tick, catch-up cycle, drag-draw, drag
\* start, move and end, merge, sacrifice, reset) raises an error in any
\* reachable state, including states loaded from a save whose dispenser
\* templates or shape records carry no attributes field
C24_NoThrow == ~last.threw

\* s has the rank, the color and the attribute set of T
Alike(T, s) ==
    /\ s.sides = T.sides
    /\ s.color = T.color
    /\ AttrSet(s) = AttrSet(T)

\* the squared distance between the positions of two shapes
SquaredDistance(s1, s2) ==
    (s1.x - s2.x) * (s1.x - s2.x) + (s1.y - s2.y) * (s1.y - s2.y)

\* the places in the registry of the shapes other than T that are alike to T
\* and less than 80 away from it
Matching(T) ==
    { i \in 1..Len(runtimeShapes) :
        /\ runtimeShapes[i].obj # T.obj
        /\ Alike(T, runtimeShapes[i])
        /\ SquaredDistance(T, runtimeShapes[i]) < 6400 }

\* C25: every merge set is homogeneous: the shapes consumed together in one
\* fusion all have the rank and the color of the trigger (the first of the
\* set) and an attribute set equal to the trigger's whatever the order of its
\* elements, and touch it; on a release, a merge happens exactly when the
\* shapes alike to the released one that touch it number at least R - 1, so
\* that a touching shape that differs in rank, color or attribute set neither
\* is consumed nor counts
C25_MergeSetHomogeneous ==
    [][ last'.op \in TriggerOps =>
          /\ \A k \in 1..Len(last'.merged) :
                LET set == last'.merged[k]
                    T == set[1]
                IN  /\ Len(set) = T.sides
                    /\ \A n \in 2..Len(set) :
                          /\ Alike(T, set[n])
                          /\ SquaredDistance(T, set[n]) < 6400
          /\ IsDrop =>
                /\ last'.merged # <<>> => last'.merged[1][1] = Trigger
                /\ last'.merged # <<>> <=>
                      Cardinality(Matching(Trigger)) >= Trigger.sides - 1 ]_vars

\* a circle with attributes gold, spawner was released on a blue circle, a
\* red triangle and a red circle with attributes spawner, gold: it merged
\* with the red circle alone
C25_Witness ==
    /\ last.op = "up"
    /\ last.fusions = 1
    /\ Len(shapes) = 3
    /\ \E i \in 1..Len(shapes) : shapes[i].color = "blue"
    /\ \E i \in 1..Len(shapes) :
          shapes[i].sides = 3 /\ shapes[i].attributes = SpawnerGold
    /\ \E i \in 1..Len(shapes) :
          shapes[i].sides = 3 /\ shapes[i].attributes = GoldSpawner

\* the shapes other than T that are alike to T, at any distance
AlikeOthers(T) ==
    { i \in 1..Len(runtimeShapes) :
        runtimeShapes[i].obj # T.obj /\ Alike(T, runtimeShapes[i]) }

\* isTouching on every pair of live shapes: true exactly below a squared
\* distance of 6400, and the same in both directions
TouchingAsClaimed ==
    \A i, j \in 1..Len(runtimeShapes) :
       LET s1 == runtimeShapes[i]
           s2 == runtimeShapes[j]
       IN  /\ isTouching(s1, s2) <=> SquaredDistance(s1, s2) < 6400
           /\ isTouching(s1, s2) <=> isTouching(s2, s1)

\* C26: two shapes touch exactly when the squared distance between their
\* positions is strictly less than 80^2; shapes exactly 80 apart do not touch
\* (a circle released exactly 80 from the only circle alike to it does not
\* merge, one released nearer does), and the predicate is symmetric
C26_TouchingDistance ==
    [][ /\ TouchingAsClaimed'
        /\ (IsDrop /\ Trigger.sides = 2 /\ AlikeOthers(Trigger) # {}) =>
              (last'.fusions >= 1 <=>
                  \E i \in AlikeOthers(Trigger) :
                     SquaredDistance(Trigger, runtimeShapes[i]) < 6400) ]_vars

\* a red circle was released exactly 80 away from the other red circle, and
\* both are still there
C26_Witness ==
    /\ last.op = "up"
    /\ last.fusions = 0
    /\ Len(runtimeShapes) = 2
    /\ Alike(runtimeShapes[1], runtimeShapes[2])
    /\ SquaredDistance(runtimeShapes[1], runtimeShapes[2]) = 6400

\* C27: when the trigger of rank R has fewer than R - 1 matching touching
\* candidates, checkMerge changes nothing: on a release outside the slots,
\* where checkMerge is all the handler does to the state, shapes, registry,
\* stats, rngSlots and lastActiveTime are unchanged
C27_NoMergeNoChange ==
    [][ (IsDrop /\ Cardinality(Matching(Trigger)) < Trigger.sides - 1) =>
          /\ last'.fusions = 0
          /\ last'.made = <<>>
          /\ UNCHANGED << shapes, runtimeShapes, stats, rngSlots,
                          lastActiveTime >> ]_vars

\* a triangle was released on one triangle that matches and one that does
\* not: one candidate where two are needed, and the three are still there
C27_Witness ==
    /\ last.op = "up"
    /\ last.idx = 0
    /\ last.fusions = 0
    /\ Len(runtimeShapes) = 3
    /\ runtimeShapes[3].sides = 3
    /\ Cardinality(Matching(runtimeShapes[3])) = 1
    /\ \A i \in 1..2 : SquaredDistance(runtimeShapes[3], runtimeShapes[i]) < 6400

\* the candidates among M that come before place i in the registry
Earlier(M, i) == { j \in M : j < i }

\* C28: when more than R - 1 matching candidates touch the trigger, exactly
\* R - 1 of them are consumed, the R - 1 earliest in the registry's insertion
\* order, and every other touching candidate remains live and unmoved
C28_EarliestConsumed ==
    [][ (IsDrop /\ Cardinality(Matching(Trigger)) > Trigger.sides - 1) =>
          \A i \in Matching(Trigger) :
             IF Cardinality(Earlier(Matching(Trigger), i)) < Trigger.sides - 1
             THEN /\ runtimeShapes[i] \notin Range(runtimeShapes')
                  /\ Rec(runtimeShapes[i]) \notin Range(shapes')
             ELSE /\ runtimeShapes[i] \in Range(runtimeShapes')
                  /\ Rec(runtimeShapes[i]) \in Range(shapes') ]_vars

\* a triangle was released on three triangles that match: the two that came
\* first are gone, the third is where it was, and a square was made
C28_Witness ==
    /\ last.op = "up"
    /\ last.fusions = 1
    /\ Len(shapes) = 2
    /\ shapes[1] = shapeAt(3, <<52, 0>>, "red", 3, <<>>)
    /\ shapes[2].sides = 4

\* a catch-up pass entered from the visibilitychange handler is in progress
ForegroundPass == pc = "offline" /\ Val(loop).cont = "foreground"

\* C29: on every transition from hidden to visible the catch-up pass runs to
\* completion before the periodic timer is re-armed: the handler enters the
\* pass, when one is due, without touching the timer, only catch-up cycles
\* and the end of the pass happen while it runs (no tick), and the timer is
\* armed when the pass is over (at once when no pass is due)
C29_CatchUpBeforeTimer ==
    [][ /\ last'.op = "foreground" =>
              IF NotDue
              THEN /\ pc' = "idle"
                   /\ spawnInterval' # Null
                   /\ Val(spawnInterval') \in timers'
              ELSE /\ ForegroundPass'
                   /\ UNCHANGED << timers, spawnInterval >>
        /\ ForegroundPass =>
              /\ last'.op \in {"cycle", "catchUpEnd"}
              /\ last'.op = "cycle" => UNCHANGED << timers, spawnInterval >>
              /\ last'.op = "catchUpEnd" =>
                    /\ pc' = "idle"
                    /\ spawnInterval' # Null
                    /\ Val(spawnInterval') \in timers' ]_vars

\* a pass entered on becoming visible has spawned a shape and is still
\* running: no timer is armed
C29_Witness ==
    /\ ForegroundPass
    /\ Val(loop).drawn >= 1
    /\ visible
    /\ timers = {}

\* C30: a drag-move changes only the position of the dragged shape, the same
\* in its record of state.shapes and in its Shape object, and triggers no
\* merge; a move or release takes effect only within a drag session and from
\* the session's pointer (an event of another pointer, or with no session,
\* changes nothing)
C30_MoveOnlyMoves ==
    [][ /\ last'.op = "move" =>
              LET d == Val(draggedShape)
                  m == Val(draggedShape')
              IN  /\ m = [ d EXCEPT !.x = m.x, !.y = m.y ]
                  /\ Len(shapes') = Len(shapes)
                  /\ \A i \in 1..Len(shapes) :
                        shapes'[i] = IF shapes[i].id = d.id
                                     THEN [ shapes[i] EXCEPT !.x = m.x, !.y = m.y ]
                                     ELSE shapes[i]
                  /\ Len(runtimeShapes') = Len(runtimeShapes)
                  /\ \A i \in 1..Len(runtimeShapes) :
                        runtimeShapes'[i] = IF runtimeShapes[i].obj = d.obj
                                            THEN m ELSE runtimeShapes[i]
                  /\ last'.fusions = 0
                  /\ last'.made = <<>>
                  /\ last'.saves = 0
                  /\ UNCHANGED << stats, rngSlots, lastActiveTime, storage,
                                  dragPointerId, version >>
        /\ last'.op \in {"move", "up"} =>
              /\ draggedShape # Null
              /\ dragPointerId = Some(last'.ptr) ]_vars

\* a live shape has been moved next to another one that matches it, and
\* both are still there; its record and its Shape object hold the new position
C30_Witness ==
    /\ last.op = "move"
    /\ draggedShape # Null
    /\ \E i \in 1..Len(runtimeShapes) :
          /\ runtimeShapes[i] = Val(draggedShape)
          /\ Matching(runtimeShapes[i]) # {}
    /\ \E i \in 1..Len(shapes) :
          /\ shapes[i].id = Val(draggedShape).id
          /\ shapes[i].x = Val(draggedShape).x
          /\ shapes[i].y = Val(draggedShape).y

\* a state in which no shape carries an attribute
AllPlain ==
    /\ \A i \in 1..Len(shapes) : shapes[i].attributes = <<>>
    /\ \A i \in 1..Len(runtimeShapes) : runtimeShapes[i].attributes = <<>>
    /\ \A i \in 1..Len(draggedShape) : draggedShape[i].attributes = <<>>

\* the same state as the variant of script.js holds it: records and Shapes
\* without the attributes member
objectOf(s) ==
    [ obj |-> s.obj, id |-> s.id, x |-> s.x, y |-> s.y, color |-> s.color,
      sides |-> s.sides ]
asSimple(G) ==
    [ G EXCEPT !.shapes = [ i \in 1..Len(@) |-> plainOf(@[i]) ],
               !.runtimeShapes = [ i \in 1..Len(@) |-> objectOf(@[i]) ],
               !.draggedShape = [ i \in 1..Len(@) |-> objectOf(@[i]) ] ]

\* the Shape of part_001 that stands for the registry's Shape T: the array
\* loads one Shape per saved record, and the registry holds under an id the
\* Shape made from the last record with that id
listTrigger(P, T) ==
    P.shapes[CHOOSE i \in 1..Len(P.shapes) :
                /\ P.shapes[i].id = T.id
                /\ \A j \in (i + 1)..Len(P.shapes) : P.shapes[j].id # T.id]

\* what a resolver did, told without object identities and with the ids it
\* drew blanked: the shapes left, the merge sets, the products
blank(sq, before) ==
    [ i \in 1..Len(sq) |->
        IF sq[i].id \in before THEN plainOf(sq[i])
        ELSE [ plainOf(sq[i]) EXCEPT !.id = 0 ] ]
outcome(left, merged, made, before) ==
    [ left |-> blank(left, before),
      merged |-> [ k \in 1..Len(merged) |-> blank(merged[k], before) ],
      made |-> made ]

outcomeRich(T) ==
    LET G == checkMerge(Cur, T, <<>>)
    IN  outcome(G.shapes, G.merged, G.made, IdsOf(shapes))
outcomeSimple(T) ==
    LET G == checkMergeSimple(asSimple(Cur), objectOf(T), <<>>)
    IN  outcome(G.shapes, G.merged, G.made, IdsOf(shapes))
outcomeList(T) ==
    LET P0 == ListGame(asSimple(Cur).shapes)
        P == checkMergeList(P0, listTrigger(P0, T), <<>>)
    IN  outcome(P.shapes, P.merged, P.made, IdsOf(shapes))

\* C31: in a state where no shape carries an attribute, for every live shape
\* taken as the trigger, the merge resolvers of script.js and of part_001
\* leave the same shapes, consume the same merge sets and create the same
\* products as the resolver of part_000
C31_ResolversAgree ==
    AllPlain =>
        \A k \in 1..Len(runtimeShapes) :
            /\ outcomeSimple(runtimeShapes[k]) = outcomeRich(runtimeShapes[k])
            /\ outcomeList(runtimeShapes[k]) = outcomeRich(runtimeShapes[k])

\* a plain board of at least three shapes on which some trigger merges
C31_Witness ==
    /\ AllPlain
    /\ Len(shapes) >= 3
    /\ \E k \in 1..Len(runtimeShapes) :
          /\ outcomeRich(runtimeShapes[k]).merged # <<>>
          /\ outcomeList(runtimeShapes[k]) = outcomeRich(runtimeShapes[k])

\* the scheduler is Active: the page is constructed and visible and its timer
\* is armed
Active == pc # "boot" /\ visible /\ timers # {}
SomeSlot == \E i \in SlotIndices : ~IsNull(rngSlots[i])
Spawnable == Active /\ Len(shapes) < MAX_SHAPES /\ SomeSlot

\* C32: from a state in which the scheduler is Active, fewer than MAX_SHAPES
\* shapes are live and some dispenser slot holds a template (and fewer than
\* MaxSpawns shapes were created so far), either a new shape is eventually
\* created or one of the three conditions eventually fails, given that the
\* armed timer keeps firing and no index stays out of the draws for ever
C32_EventuallySpawns ==
    \A n \in 0..(MaxSpawns - 1) :
        (Spawnable /\ created = n) ~> (created > n \/ ~Spawnable)

\* the timer ticked on an empty slot of a one-template dispenser and then on
\* the template: the shape is there
C32_Witness ==
    /\ Active
    /\ pc = "idle"
    /\ last.op = "tick"
    /\ last.idx = 5
    /\ last.made = << <<"blue", 2>> >>
    /\ rngSlots = NoSlots

\* C33: whenever a drag session is active, the dragged Shape is an entry of
\* the registry and its id is the id of a record of state.shapes
C33_DraggedShapeLive ==
    ~IsNull(draggedShape) =>
        /\ \E i \in 1..Len(runtimeShapes) :
              runtimeShapes[i].obj = Val(draggedShape).obj
        /\ Val(draggedShape).id \in IdsOf(shapes)

\* C34: at most one periodic spawn timer is armed in every reachable state,
\* and from the end of the construction on the armed timer, if any, is the one
\* whose handle is stored
C34_OneTimer ==
    /\ Cardinality(timers) <= 1
    /\ timers # {} => ~IsNull(spawnInterval) /\ timers = { Val(spawnInterval) }

\* a foreground event on a visible page re-armed the timer: the stored handle
\* is a new one and the only one armed
C34_Witness ==
    /\ last.op = "foregroundAgain"
    /\ ~IsNull(spawnInterval)
    /\ timers = { Val(spawnInterval) }
    /\ Val(spawnInterval) # 1

\* the live count when a handler's checkMerge cascade starts: a spawned shape
\* is pushed before it is merge-checked, a released one is there already
StartLive ==
    Len(shapes) + (IF last'.op \in SpawnOps /\ last'.made # <<>> THEN 1 ELSE 0)

\* C35: the cascade a trigger starts ends after at most as many fusions as
\* there were live shapes at its start, and each fusion takes at least one
\* from the live count: after f fusions at most StartLive - f shapes are live
C35_CascadeBounded ==
    [][ (last'.op \in TriggerOps /\ last'.fusions >= 1) =>
            /\ last'.fusions <= StartLive
            /\ Len(shapes') <= StartLive - last'.fusions ]_vars

\* a cascade of two fusions: a fourth circle made two touching triangles and
\* a circle into one square
C35_Witness ==
    /\ last.op \in TriggerOps
    /\ last.fusions = 2
    /\ Len(shapes) = 1
    /\ shapes[1].sides = 4

\* the ranks in the game: of the records, of the registry's Shapes, of the
\* dispenser's templates, and of the Shape a drag holds
RanksOf(sh, reg, slots, held) ==
    { sh[i].sides : i \in 1..Len(sh) }
        \cup { reg[i].sides : i \in 1..Len(reg) }
        \cup { Val(slots[i]).sides : i \in { j \in SlotIndices : ~IsNull(slots[j]) } }
        \cup { held[i].sides : i \in 1..Len(held) }
Ranks == RanksOf(shapes, runtimeShapes, rngSlots, draggedShape)

\* C36: every live shape and every template has rank 2 or more in every
\* reachable state; every fusion consumes at least two shapes; and after the
\* page load a rank that was not in the game before a step is 2, or R + 1 for
\* a fusion of rank-R shapes in that step
C36_RanksAtLeastTwo ==
    /\ [](\A r \in Ranks : r >= 2)
    /\ [][ /\ \A k \in 1..Len(last'.merged) : Len(last'.merged[k]) >= 2
           /\ last'.op # "construct" =>
                 \A r \in Ranks' \ Ranks :
                    \/ r = 2
                    \/ \E k \in 1..Len(last'.merged) :
                          r = last'.merged[k][1].sides + 1 ]_vars

\* a fusion of two circles made the first triangle of the game
C36_Witness ==
    /\ last.op \in TriggerOps
    /\ Len(last.merged) = 1
    /\ Len(last.merged[1]) = 2
    /\ Ranks = {2, 3}
    /\ stats = (<<"red", 2>> :> 2) @@ (<<"red", 3>> :> 1)

====
